---- MODULE Spec2Model ----
(***************************************************************************)
(* HealthcareDB: the access-control ledger of the decentralised healthcare *)
(* database.  The canonical contract (the Pausable variant with the access *)
(* cache) is modelled as a state machine: one action per external          *)
(* function, every call a single atomic transaction.  A transaction that   *)
(* reverts leaves the storage as it was; the outcome of the latest call is *)
(* kept in `last` so that statements about rejected calls can be made.     *)
(* The entry points inherited from the OpenZeppelin base contracts         *)
(* (grantRole, revokeRole, renounceRole) are not part of the modelled      *)
(* interface; nonReentrant never triggers because no function makes an     *)
(* external call.                                                          *)
(***************************************************************************)
EXTENDS Naturals, Sequences, FiniteSets, TLC

VARIABLES
    _roles,                   \* AccessControl: role -> set of holders
    _paused,                  \* Pausable
    _records,                 \* mapping(bytes32 => PatientRecord)
    _recordAccess,            \* mapping(bytes32 => AccessGrant[])
    _patientRecords,          \* mapping(address => bytes32[])
    _organizationRecords,     \* mapping(address => bytes32[])
    _hasAccessCache,          \* the pairs <<recordId, organization>> mapped to true
    _allRecordIds,            \* bytes32[]
    _registeredOrganizations, \* address[]
    events,                   \* the emitted events, in emission order
    block,                    \* the block the next transaction executes in
    last,                     \* the latest call and its outcome
    form,                     \* the page of the frontend: fields, errors, writes
    legacy                    \* the storage of the earlier contract, and its outcome

storage == <<_roles, _paused, _records, _recordAccess, _patientRecords,
             _organizationRecords, _hasAccessCache, _allRecordIds,
             _registeredOrganizations, events>>

vars == <<_roles, _paused, _records, _recordAccess, _patientRecords,
          _organizationRecords, _hasAccessCache, _allRecordIds,
          _registeredOrganizations, events, block, last, form, legacy>>

-----------------------------------------------------------------------------
(* Bounds of the model.                                                    *)

\* The longest event log explored: the number of successful mutations.
MaxLog == 3

\* The highest block number explored.
MaxBlock == 2

\* The longest event log explored from the state with a record in place:
\* by grants and revocations alone, and by every operation on records.
MaxLedgerLog == 8

MaxRecordLog == 5

-----------------------------------------------------------------------------
(* Constants of the contract and the inputs of the calls.                  *)

ORGANIZATION_ROLE == "ORGANIZATION_ROLE"

ADMIN_ROLE == "ADMIN_ROLE"

DEFAULT_ADMIN_ROLE == "DEFAULT_ADMIN_ROLE"

MAX_STRING_LENGTH == 256

MAX_BATCH == 50

\* address(0)
ZeroAddress == 0

\* The account that deploys the contract.
Deployer == 1

Address == {ZeroAddress, Deployer, 2, 3}

\* msg.sender is never the zero address.
Callers == Address \ {ZeroAddress}

\* The accounts registerOrganization is called for.
OrganizationInputs == {ZeroAddress, 2, 3}

PatientInputs == {ZeroAddress, 3}

LongString == "xxxxxxxxxxxxxxxxxxxxxxxxxxxxxxxxxxxxxxxxxxxxxxxxxxxxxxxxxxxxxxxxxxxxxxxxxxxxxxxxxxxxxxxxxxxxxxxxxxxxxxxxxxxxxxxxxxxxxxxxxxxxxxxxxxxxxxxxxxxxxxxxxxxxxxxxxxxxxxxxxxxxxxxxxxxxxxxxxxxxxxxxxxxxxxxxxxxxxxxxxxxxxxxxxxxxxxxxxxxxxxxxxxxxxxxxxxxxxxxxxxxxxxxxxxxxxxxxx"

\* <<encryptedDataHash, dataLocation>> arguments: valid ones, and one that
\* breaks each constraint of validString.
InvalidStrings == {<<"", "ipfs://L1">>, <<"H1", LongString>>}

CreateStrings == {<<"H1", "ipfs://L1">>} \cup InvalidStrings

UpdateStrings == {<<"H2", "ipfs://L2">>} \cup InvalidStrings

TooManyOrganizations == [i \in 1..(MAX_BATCH + 1) |-> 2]

BatchInputs == {<< >>, <<2, 3>>, <<ZeroAddress, 3, 3>>, TooManyOrganizations}

Prevrandao == {0}

\* bytes32(0), the key of no record.
ZeroId == <<0, 0, 0, 0, 0, 0>>

-----------------------------------------------------------------------------
(* Outcomes of a call: "ok", or the reason of the revert.                  *)

OK == "ok"

E_Role == "AccessControlUnauthorizedAccount"

E_Paused == "EnforcedPause"

E_NotPaused == "ExpectedPause"

E_Address == "HealthcareDB: Invalid address"

E_Empty == "HealthcareDB: Empty string"

E_TooLong == "HealthcareDB: String too long"

E_NoRecord == "HealthcareDB: Record does not exist or is inactive"

E_Registered == "HealthcareDB: Organization already registered"

E_EmptyArray == "HealthcareDB: Empty array"

E_TooMany == "HealthcareDB: Too many organizations"

E_Collision == "HealthcareDB: Record ID collision"

E_InvalidOrg == "HealthcareDB: Invalid organization"

E_NoAccess == "HealthcareDB: You don't have access to this record"

E_Granted == "HealthcareDB: Access already granted"

E_OwnAccess == "HealthcareDB: Cannot revoke own access"

E_NotGranted == "HealthcareDB: Organization does not have access"

E_NotFound == "HealthcareDB: Access not found"

E_Deactivate == "HealthcareDB: Only creator or admin can deactivate"

E_BadConfirmation == "AccessControlBadConfirmation"

\* The error kind of the specification's taxonomy for each revert reason.
ErrorKind(res) ==
    CASE res = OK -> "Success"
      [] res = E_Role -> "Unauthorized"
      [] res = E_NoAccess -> "Unauthorized"
      [] res = E_Deactivate -> "Unauthorized"
      [] res = E_Paused -> "Paused"
      [] res = E_NotPaused -> "NotPaused"
      [] res = E_Address -> "InvalidArgument"
      [] res = E_Empty -> "InvalidArgument"
      [] res = E_TooLong -> "InvalidArgument"
      [] res = E_EmptyArray -> "InvalidArgument"
      [] res = E_TooMany -> "InvalidArgument"
      [] res = E_InvalidOrg -> "InvalidArgument"
      [] res = E_OwnAccess -> "InvalidArgument"
      [] res = E_BadConfirmation -> "InvalidArgument"
      [] res = E_NoRecord -> "NotFound"
      [] res = E_NotFound -> "NotFound"
      [] res = E_Registered -> "AlreadyExists"
      [] res = E_Collision -> "AlreadyExists"
      [] res = E_Granted -> "AlreadyGranted"
      [] res = E_NotGranted -> "NotGranted"

-----------------------------------------------------------------------------
(* Storage helpers.                                                        *)

\* Reading a mapping: a key never written reads as the zero value.
Get(m, k, zero) == IF k \in DOMAIN m THEN m[k] ELSE zero

\* Writing a mapping.
Put(m, k, v) == [x \in DOMAIN m \cup {k} |-> IF x = k THEN v ELSE m[x]]

\* The zero value of PatientRecord.
ZeroRecord ==
    [recordId |-> ZeroId, patientAddress |-> ZeroAddress, createdBy |-> ZeroAddress,
     timestamp |-> 0, lastUpdated |-> 0, encryptedDataHash |-> "",
     dataLocation |-> "", isActive |-> FALSE]

\* bytes(_str).length
StrLen(str) == IF str = LongString THEN MAX_STRING_LENGTH + 1 ELSE Len(str)

\* The storage as one value, for the effect of a call.
State ==
    [roles |-> _roles, paused |-> _paused, records |-> _records,
     recordAccess |-> _recordAccess, patientRecords |-> _patientRecords,
     organizationRecords |-> _organizationRecords,
     hasAccessCache |-> _hasAccessCache, allRecordIds |-> _allRecordIds,
     registeredOrganizations |-> _registeredOrganizations, events |-> events]

\* A transaction that reverts keeps the storage it started from.
CommitNoRollback(res, post) == post

\* A transaction commits its writes only when no require failed.
Commit(res, post) == IF res = OK THEN post ELSE State

\* The storage after a call with outcome res whose body writes post.
Apply(res, post) ==
    LET s == Commit(res, post) IN
    /\ _roles' = s.roles
    /\ _paused' = s.paused
    /\ _records' = s.records
    /\ _recordAccess' = s.recordAccess
    /\ _patientRecords' = s.patientRecords
    /\ _organizationRecords' = s.organizationRecords
    /\ _hasAccessCache' = s.hasAccessCache
    /\ _allRecordIds' = s.allRecordIds
    /\ _registeredOrganizations' = s.registeredOrganizations
    /\ events' = s.events

\* The record of a call in `last`.
Call(op, caller, args, res) ==
    [op |-> op, caller |-> caller, recordId |-> args.recordId,
     organization |-> args.organization, patientAddress |-> args.patientAddress,
     strings |-> args.strings, batch |-> args.batch, role |-> args.role,
     result |-> res]

NoArgs ==
    [recordId |-> ZeroId, organization |-> ZeroAddress,
     patientAddress |-> ZeroAddress, strings |-> <<"", "">>, batch |-> << >>,
     role |-> DEFAULT_ADMIN_ROLE]

-----------------------------------------------------------------------------
(* Roles and the view functions.                                           *)

hasRole(role, account) == account \in _roles[role]

\* The scan of the grant list of _hasAccess and of revokeAccess: the index
\* of the first entry of the organization that is not revoked, 0 if none.
FirstActive(grants, organization) ==
    LET hit(i) == grants[i].organization = organization /\ ~grants[i].isRevoked IN
    IF \E i \in 1..Len(grants) : hit(i)
    THEN CHOOSE i \in 1..Len(grants) : hit(i) /\ \A j \in 1..(i - 1) : ~hit(j)
    ELSE 0

_hasAccessNoActiveCheck(recordId, organization) ==
    /\ <<recordId, organization>> \in _hasAccessCache
    /\ FirstActive(Get(_recordAccess, recordId, << >>), organization) # 0

_hasAccess(recordId, organization) ==
    /\ Get(_records, recordId, ZeroRecord).isActive
    /\ <<recordId, organization>> \in _hasAccessCache
    /\ FirstActive(Get(_recordAccess, recordId, << >>), organization) # 0

hasAccess(recordId, organization) == _hasAccess(recordId, organization)

getRecord(recordId) == Get(_records, recordId, ZeroRecord)

getRecordAccessFirstEntry(recordId) ==
    LET grants == Get(_recordAccess, recordId, << >>)
        first(i) == \A j \in 1..(i - 1) : grants[j].organization # grants[i].organization
        holds(i) == \E j \in 1..Len(grants) :
                        grants[j].organization = grants[i].organization /\ ~grants[j].isRevoked
        at == SelectSeq([i \in 1..Len(grants) |-> i], LAMBDA i : first(i) /\ holds(i))
    IN  [k \in 1..Len(at) |-> grants[at[k]].organization]

getRecordAccess(recordId) ==
    LET grants == Get(_recordAccess, recordId, << >>)
        active == SelectSeq(grants, LAMBDA g : ~g.isRevoked)
    IN  [i \in 1..Len(active) |-> active[i].organization]

getPatientRecords(patientAddress) == _patientRecords[patientAddress]

getOrganizationRecords(organization) == _organizationRecords[organization]

getPatientRecordCount(patientAddress) == Len(_patientRecords[patientAddress])

getTotalRecordCount == Len(_allRecordIds)

getOrganizationCount == Len(_registeredOrganizations)

getAllOrganizations == _registeredOrganizations

-----------------------------------------------------------------------------
(* Organization management.                                                *)

OrganizationRegistered(organization, registeredBy) ==
    [name |-> "OrganizationRegistered", organization |-> organization,
     registeredBy |-> registeredBy]

\* _grantRole, the push and the event of a registration, on storage s.
Register(s, organization, registeredBy) ==
    [s EXCEPT !.roles[ORGANIZATION_ROLE] = @ \cup {organization},
              !.registeredOrganizations = Append(@, organization),
              !.events = Append(@, OrganizationRegistered(organization, registeredBy))]

registerOrganizationResultNoRole(caller, organization) ==
    IF organization = ZeroAddress THEN E_Address
    ELSE IF _paused THEN E_Paused
    ELSE IF hasRole(ORGANIZATION_ROLE, organization) THEN E_Registered
    ELSE OK

registerOrganizationResultNoDuplicateCheck(caller, organization) ==
    IF ~hasRole(ADMIN_ROLE, caller) THEN E_Role
    ELSE IF organization = ZeroAddress THEN E_Address
    ELSE IF _paused THEN E_Paused
    ELSE OK

registerOrganizationResult(caller, organization) ==
    IF ~hasRole(ADMIN_ROLE, caller) THEN E_Role
    ELSE IF organization = ZeroAddress THEN E_Address
    ELSE IF _paused THEN E_Paused
    ELSE IF hasRole(ORGANIZATION_ROLE, organization) THEN E_Registered
    ELSE OK

registerOrganizationPost(caller, organization) == Register(State, organization, caller)

registerOrganization(caller, organization) ==
    LET res == registerOrganizationResult(caller, organization)
        post == registerOrganizationPost(caller, organization)
    IN  /\ Apply(res, post)
        /\ last' = Call("registerOrganization", caller,
                        [NoArgs EXCEPT !.organization = organization], res)
        /\ UNCHANGED block

batchRegisterOrganizationsResult(caller, organizations) ==
    IF ~hasRole(ADMIN_ROLE, caller) THEN E_Role
    ELSE IF _paused THEN E_Paused
    ELSE IF Len(organizations) = 0 THEN E_EmptyArray
    ELSE IF Len(organizations) > MAX_BATCH THEN E_TooMany
    ELSE OK

RECURSIVE BatchLoopNoSkip(_, _, _, _)
BatchLoopNoSkip(s, organizations, caller, i) ==
    IF i > Len(organizations) THEN s
    ELSE IF organizations[i] # ZeroAddress
         THEN BatchLoopNoSkip(Register(s, organizations[i], caller),
                              organizations, caller, i + 1)
         ELSE BatchLoopNoSkip(s, organizations, caller, i + 1)

\* The loop of batchRegisterOrganizations from index i on, on storage s.
RECURSIVE BatchLoop(_, _, _, _)
BatchLoop(s, organizations, caller, i) ==
    IF i > Len(organizations) THEN s
    ELSE IF /\ organizations[i] # ZeroAddress
            /\ organizations[i] \notin s.roles[ORGANIZATION_ROLE]
         THEN BatchLoop(Register(s, organizations[i], caller), organizations, caller, i + 1)
         ELSE BatchLoop(s, organizations, caller, i + 1)

batchRegisterOrganizationsPost(caller, organizations) ==
    BatchLoop(State, organizations, caller, 1)

batchRegisterOrganizations(caller, organizations) ==
    LET res == batchRegisterOrganizationsResult(caller, organizations)
        post == batchRegisterOrganizationsPost(caller, organizations)
    IN  /\ Apply(res, post)
        /\ last' = Call("batchRegisterOrganizations", caller,
                        [NoArgs EXCEPT !.batch = organizations], res)
        /\ UNCHANGED block

-----------------------------------------------------------------------------
(* Record management.                                                      *)

\* validString(_str, MAX_STRING_LENGTH): OK or the reason of the revert.
validString(str) ==
    IF StrLen(str) = 0 THEN E_Empty
    ELSE IF StrLen(str) > MAX_STRING_LENGTH THEN E_TooLong
    ELSE OK

RecordIdNoCount(patientAddress, sender) ==
    <<patientAddress, sender, block.timestamp, block.prevrandao, block.number, 0>>

\* keccak256(abi.encodePacked(...)) of createRecord.  The hash is taken to be
\* injective on its packed input, so the id is the input itself.
RecordId(patientAddress, sender) ==
    <<patientAddress, sender, block.timestamp, block.prevrandao, block.number,
      Len(_allRecordIds)>>

AccessGrant(organization) ==
    [organization |-> organization, grantedAt |-> block.timestamp,
     revokedAt |-> 0, isRevoked |-> FALSE]

createRecordResultNoStringCheck(caller, patientAddress, strings) ==
    IF ~hasRole(ORGANIZATION_ROLE, caller) THEN E_Role
    ELSE IF _paused THEN E_Paused
    ELSE IF patientAddress = ZeroAddress THEN E_Address
    ELSE IF Get(_records, RecordId(patientAddress, caller), ZeroRecord).isActive
         THEN E_Collision
    ELSE OK

createRecordResultNoPatientCheck(caller, patientAddress, strings) ==
    IF ~hasRole(ORGANIZATION_ROLE, caller) THEN E_Role
    ELSE IF _paused THEN E_Paused
    ELSE IF validString(strings[1]) # OK THEN validString(strings[1])
    ELSE IF validString(strings[2]) # OK THEN validString(strings[2])
    ELSE IF Get(_records, RecordId(patientAddress, caller), ZeroRecord).isActive
         THEN E_Collision
    ELSE OK

createRecordResult(caller, patientAddress, strings) ==
    IF ~hasRole(ORGANIZATION_ROLE, caller) THEN E_Role
    ELSE IF _paused THEN E_Paused
    ELSE IF patientAddress = ZeroAddress THEN E_Address
    ELSE IF validString(strings[1]) # OK THEN validString(strings[1])
    ELSE IF validString(strings[2]) # OK THEN validString(strings[2])
    ELSE IF Get(_records, RecordId(patientAddress, caller), ZeroRecord).isActive
         THEN E_Collision
    ELSE OK

createRecordPostNoCache(caller, patientAddress, strings) ==
    LET recordId == RecordId(patientAddress, caller) IN
    [State EXCEPT
        !.records = Put(@, recordId,
            [recordId |-> recordId, patientAddress |-> patientAddress,
             createdBy |-> caller, timestamp |-> block.timestamp,
             lastUpdated |-> block.timestamp, encryptedDataHash |-> strings[1],
             dataLocation |-> strings[2], isActive |-> TRUE]),
        !.recordAccess = Put(@, recordId,
            Append(Get(@, recordId, << >>), AccessGrant(caller))),
        !.patientRecords[patientAddress] = Append(@, recordId),
        !.organizationRecords[caller] = Append(@, recordId),
        !.allRecordIds = Append(@, recordId),
        !.events = Append(@,
            [name |-> "RecordCreated", recordId |-> recordId,
             patientAddress |-> patientAddress, createdBy |-> caller,
             timestamp |-> block.timestamp, encryptedDataHash |-> strings[1],
             dataLocation |-> strings[2]])]

createRecordPostNoPatientIndex(caller, patientAddress, strings) ==
    LET recordId == RecordId(patientAddress, caller) IN
    [State EXCEPT
        !.records = Put(@, recordId,
            [recordId |-> recordId, patientAddress |-> patientAddress,
             createdBy |-> caller, timestamp |-> block.timestamp,
             lastUpdated |-> block.timestamp, encryptedDataHash |-> strings[1],
             dataLocation |-> strings[2], isActive |-> TRUE]),
        !.recordAccess = Put(@, recordId,
            Append(Get(@, recordId, << >>), AccessGrant(caller))),
        !.hasAccessCache = @ \cup {<<recordId, caller>>},
        !.organizationRecords[caller] = Append(@, recordId),
        !.allRecordIds = Append(@, recordId),
        !.events = Append(@,
            [name |-> "RecordCreated", recordId |-> recordId,
             patientAddress |-> patientAddress, createdBy |-> caller,
             timestamp |-> block.timestamp, encryptedDataHash |-> strings[1],
             dataLocation |-> strings[2]])]

createRecordPost(caller, patientAddress, strings) ==
    LET recordId == RecordId(patientAddress, caller) IN
    [State EXCEPT
        !.records = Put(@, recordId,
            [recordId |-> recordId, patientAddress |-> patientAddress,
             createdBy |-> caller, timestamp |-> block.timestamp,
             lastUpdated |-> block.timestamp, encryptedDataHash |-> strings[1],
             dataLocation |-> strings[2], isActive |-> TRUE]),
        !.recordAccess = Put(@, recordId,
            Append(Get(@, recordId, << >>), AccessGrant(caller))),
        !.hasAccessCache = @ \cup {<<recordId, caller>>},
        !.patientRecords[patientAddress] = Append(@, recordId),
        !.organizationRecords[caller] = Append(@, recordId),
        !.allRecordIds = Append(@, recordId),
        !.events = Append(@,
            [name |-> "RecordCreated", recordId |-> recordId,
             patientAddress |-> patientAddress, createdBy |-> caller,
             timestamp |-> block.timestamp, encryptedDataHash |-> strings[1],
             dataLocation |-> strings[2]])]

\* On success last.recordId is the id the call returns.
createRecord(caller, patientAddress, strings) ==
    LET res == createRecordResult(caller, patientAddress, strings)
        post == createRecordPost(caller, patientAddress, strings)
    IN  /\ Apply(res, post)
        /\ last' = Call("createRecord", caller,
                        [NoArgs EXCEPT !.patientAddress = patientAddress,
                                       !.strings = strings,
                                       !.recordId = IF res = OK
                                                    THEN RecordId(patientAddress, caller)
                                                    ELSE ZeroId], res)
        /\ UNCHANGED block

-----------------------------------------------------------------------------
(* Access grants.                                                          *)

grantAccessResultNoRoleCheck(caller, recordId, organization) ==
    IF ~hasRole(ORGANIZATION_ROLE, caller) THEN E_Role
    ELSE IF _paused THEN E_Paused
    ELSE IF ~Get(_records, recordId, ZeroRecord).isActive THEN E_NoRecord
    ELSE IF organization = ZeroAddress THEN E_Address
    ELSE IF ~_hasAccess(recordId, caller) THEN E_NoAccess
    ELSE IF _hasAccess(recordId, organization) THEN E_Granted
    ELSE OK

grantAccessResultNoDuplicateCheck(caller, recordId, organization) ==
    IF ~hasRole(ORGANIZATION_ROLE, caller) THEN E_Role
    ELSE IF _paused THEN E_Paused
    ELSE IF ~Get(_records, recordId, ZeroRecord).isActive THEN E_NoRecord
    ELSE IF organization = ZeroAddress THEN E_Address
    ELSE IF ~hasRole(ORGANIZATION_ROLE, organization) THEN E_InvalidOrg
    ELSE IF ~_hasAccess(recordId, caller) THEN E_NoAccess
    ELSE OK

grantAccessResultAccessFirst(caller, recordId, organization) ==
    IF ~hasRole(ORGANIZATION_ROLE, caller) THEN E_Role
    ELSE IF _paused THEN E_Paused
    ELSE IF ~Get(_records, recordId, ZeroRecord).isActive THEN E_NoRecord
    ELSE IF ~_hasAccess(recordId, caller) THEN E_NoAccess
    ELSE IF organization = ZeroAddress THEN E_Address
    ELSE IF ~hasRole(ORGANIZATION_ROLE, organization) THEN E_InvalidOrg
    ELSE IF _hasAccess(recordId, organization) THEN E_Granted
    ELSE OK

grantAccessResult(caller, recordId, organization) ==
    IF ~hasRole(ORGANIZATION_ROLE, caller) THEN E_Role
    ELSE IF _paused THEN E_Paused
    ELSE IF ~Get(_records, recordId, ZeroRecord).isActive THEN E_NoRecord
    ELSE IF organization = ZeroAddress THEN E_Address
    ELSE IF ~hasRole(ORGANIZATION_ROLE, organization) THEN E_InvalidOrg
    ELSE IF ~_hasAccess(recordId, caller) THEN E_NoAccess
    ELSE IF _hasAccess(recordId, organization) THEN E_Granted
    ELSE OK

grantAccessPostReuseEntry(caller, recordId, organization) ==
    LET grants == Get(_recordAccess, recordId, << >>)
        old(i) == grants[i].organization = organization /\ grants[i].isRevoked
        i == IF \E j \in 1..Len(grants) : old(j)
             THEN CHOOSE j \in 1..Len(grants) : old(j) /\ \A k \in 1..(j - 1) : ~old(k)
             ELSE 0
    IN  [State EXCEPT
            !.recordAccess = Put(@, recordId,
                IF i = 0 THEN Append(grants, AccessGrant(organization))
                ELSE [grants EXCEPT ![i] = AccessGrant(organization)]),
            !.hasAccessCache = @ \cup {<<recordId, organization>>},
            !.organizationRecords[organization] = Append(@, recordId),
            !.events = Append(@,
                [name |-> "AccessGranted", recordId |-> recordId,
                 organization |-> organization, grantedBy |-> caller,
                 timestamp |-> block.timestamp])]

grantAccessPostNoCache(caller, recordId, organization) ==
    [State EXCEPT
        !.recordAccess = Put(@, recordId,
            Append(Get(@, recordId, << >>), AccessGrant(organization))),
        !.organizationRecords[organization] = Append(@, recordId),
        !.events = Append(@,
            [name |-> "AccessGranted", recordId |-> recordId,
             organization |-> organization, grantedBy |-> caller,
             timestamp |-> block.timestamp])]

grantAccessPostNoIndex(caller, recordId, organization) ==
    [State EXCEPT
        !.recordAccess = Put(@, recordId,
            Append(Get(@, recordId, << >>), AccessGrant(organization))),
        !.hasAccessCache = @ \cup {<<recordId, organization>>},
        !.events = Append(@,
            [name |-> "AccessGranted", recordId |-> recordId,
             organization |-> organization, grantedBy |-> caller,
             timestamp |-> block.timestamp])]

grantAccessPost(caller, recordId, organization) ==
    [State EXCEPT
        !.recordAccess = Put(@, recordId,
            Append(Get(@, recordId, << >>), AccessGrant(organization))),
        !.hasAccessCache = @ \cup {<<recordId, organization>>},
        !.organizationRecords[organization] = Append(@, recordId),
        !.events = Append(@,
            [name |-> "AccessGranted", recordId |-> recordId,
             organization |-> organization, grantedBy |-> caller,
             timestamp |-> block.timestamp])]

grantAccess(caller, recordId, organization) ==
    LET res == grantAccessResult(caller, recordId, organization)
        post == grantAccessPost(caller, recordId, organization)
    IN  /\ Apply(res, post)
        /\ last' = Call("grantAccess", caller,
                        [NoArgs EXCEPT !.recordId = recordId,
                                       !.organization = organization], res)
        /\ UNCHANGED block

\* The final revert is reached when the loop finds no entry to revoke.
revokeAccessResultNoSelfCheck(caller, recordId, organization) ==
    IF ~hasRole(ORGANIZATION_ROLE, caller) THEN E_Role
    ELSE IF _paused THEN E_Paused
    ELSE IF ~Get(_records, recordId, ZeroRecord).isActive THEN E_NoRecord
    ELSE IF organization = ZeroAddress THEN E_Address
    ELSE IF ~_hasAccess(recordId, caller) THEN E_NoAccess
    ELSE IF ~_hasAccess(recordId, organization) THEN E_NotGranted
    ELSE IF FirstActive(Get(_recordAccess, recordId, << >>), organization) = 0
         THEN E_NotFound
    ELSE OK

revokeAccessResult(caller, recordId, organization) ==
    IF ~hasRole(ORGANIZATION_ROLE, caller) THEN E_Role
    ELSE IF _paused THEN E_Paused
    ELSE IF ~Get(_records, recordId, ZeroRecord).isActive THEN E_NoRecord
    ELSE IF organization = ZeroAddress THEN E_Address
    ELSE IF ~_hasAccess(recordId, caller) THEN E_NoAccess
    ELSE IF organization = caller THEN E_OwnAccess
    ELSE IF ~_hasAccess(recordId, organization) THEN E_NotGranted
    ELSE IF FirstActive(Get(_recordAccess, recordId, << >>), organization) = 0
         THEN E_NotFound
    ELSE OK

\* The loop marks the first entry of the organization that is not revoked.
revokeAccessPostKeepCache(caller, recordId, organization) ==
    LET grants == Get(_recordAccess, recordId, << >>)
        i == FirstActive(grants, organization)
    IN  IF i = 0 THEN State
        ELSE [State EXCEPT
                !.recordAccess = Put(@, recordId,
                    [grants EXCEPT ![i].isRevoked = TRUE,
                                   ![i].revokedAt = block.timestamp]),
                !.events = Append(@,
                    [name |-> "AccessRevoked", recordId |-> recordId,
                     organization |-> organization, revokedBy |-> caller,
                     timestamp |-> block.timestamp])]

revokeAccessPostFirstEntry(caller, recordId, organization) ==
    LET grants == Get(_recordAccess, recordId, << >>)
        own(i) == grants[i].organization = organization
        i == IF \E j \in 1..Len(grants) : own(j)
             THEN CHOOSE j \in 1..Len(grants) : own(j) /\ \A k \in 1..(j - 1) : ~own(k)
             ELSE 0
    IN  IF i = 0 THEN State
        ELSE [State EXCEPT
                !.recordAccess = Put(@, recordId,
                    [grants EXCEPT ![i].isRevoked = TRUE,
                                   ![i].revokedAt = block.timestamp]),
                !.hasAccessCache = @ \ {<<recordId, organization>>},
                !.events = Append(@,
                    [name |-> "AccessRevoked", recordId |-> recordId,
                     organization |-> organization, revokedBy |-> caller,
                     timestamp |-> block.timestamp])]

revokeAccessPostNoEvent(caller, recordId, organization) ==
    LET grants == Get(_recordAccess, recordId, << >>)
        i == FirstActive(grants, organization)
    IN  IF i = 0 THEN State
        ELSE [State EXCEPT
                !.recordAccess = Put(@, recordId,
                    [grants EXCEPT ![i].isRevoked = TRUE,
                                   ![i].revokedAt = block.timestamp]),
                !.hasAccessCache = @ \ {<<recordId, organization>>}]

revokeAccessPost(caller, recordId, organization) ==
    LET grants == Get(_recordAccess, recordId, << >>)
        i == FirstActive(grants, organization)
    IN  IF i = 0 THEN State
        ELSE [State EXCEPT
                !.recordAccess = Put(@, recordId,
                    [grants EXCEPT ![i].isRevoked = TRUE,
                                   ![i].revokedAt = block.timestamp]),
                !.hasAccessCache = @ \ {<<recordId, organization>>},
                !.events = Append(@,
                    [name |-> "AccessRevoked", recordId |-> recordId,
                     organization |-> organization, revokedBy |-> caller,
                     timestamp |-> block.timestamp])]

revokeAccess(caller, recordId, organization) ==
    LET res == revokeAccessResult(caller, recordId, organization)
        post == revokeAccessPost(caller, recordId, organization)
    IN  /\ Apply(res, post)
        /\ last' = Call("revokeAccess", caller,
                        [NoArgs EXCEPT !.recordId = recordId,
                                       !.organization = organization], res)
        /\ UNCHANGED block

-----------------------------------------------------------------------------
(* Update and deactivation.                                                *)

updateRecordResultNoAccessCheck(caller, recordId, strings) ==
    IF ~hasRole(ORGANIZATION_ROLE, caller) THEN E_Role
    ELSE IF _paused THEN E_Paused
    ELSE IF ~Get(_records, recordId, ZeroRecord).isActive THEN E_NoRecord
    ELSE IF validString(strings[1]) # OK THEN validString(strings[1])
    ELSE IF validString(strings[2]) # OK THEN validString(strings[2])
    ELSE OK

updateRecordResult(caller, recordId, strings) ==
    IF ~hasRole(ORGANIZATION_ROLE, caller) THEN E_Role
    ELSE IF _paused THEN E_Paused
    ELSE IF ~Get(_records, recordId, ZeroRecord).isActive THEN E_NoRecord
    ELSE IF validString(strings[1]) # OK THEN validString(strings[1])
    ELSE IF validString(strings[2]) # OK THEN validString(strings[2])
    ELSE IF ~_hasAccess(recordId, caller) THEN E_NoAccess
    ELSE OK

updateRecordPostResetCreated(caller, recordId, strings) ==
    [State EXCEPT
        !.records = Put(@, recordId,
            [Get(@, recordId, ZeroRecord) EXCEPT
                !.encryptedDataHash = strings[1],
                !.dataLocation = strings[2],
                !.timestamp = block.timestamp,
                !.lastUpdated = block.timestamp]),
        !.events = Append(@,
            [name |-> "RecordUpdated", recordId |-> recordId,
             updatedBy |-> caller, timestamp |-> block.timestamp,
             newEncryptedDataHash |-> strings[1], newDataLocation |-> strings[2]])]

updateRecordPost(caller, recordId, strings) ==
    [State EXCEPT
        !.records = Put(@, recordId,
            [Get(@, recordId, ZeroRecord) EXCEPT
                !.encryptedDataHash = strings[1],
                !.dataLocation = strings[2],
                !.lastUpdated = block.timestamp]),
        !.events = Append(@,
            [name |-> "RecordUpdated", recordId |-> recordId,
             updatedBy |-> caller, timestamp |-> block.timestamp,
             newEncryptedDataHash |-> strings[1], newDataLocation |-> strings[2]])]

updateRecord(caller, recordId, strings) ==
    LET res == updateRecordResult(caller, recordId, strings)
        post == updateRecordPost(caller, recordId, strings)
    IN  /\ Apply(res, post)
        /\ last' = Call("updateRecord", caller,
                        [NoArgs EXCEPT !.recordId = recordId, !.strings = strings], res)
        /\ UNCHANGED block

deactivateRecordResultNoRecordCheck(caller, recordId) ==
    IF _paused THEN E_Paused
    ELSE IF ~(\/ Get(_records, recordId, ZeroRecord).createdBy = caller
              \/ hasRole(ADMIN_ROLE, caller)) THEN E_Deactivate
    ELSE OK

deactivateRecordResultNoPauseCheck(caller, recordId) ==
    IF ~Get(_records, recordId, ZeroRecord).isActive THEN E_NoRecord
    ELSE IF ~(\/ Get(_records, recordId, ZeroRecord).createdBy = caller
              \/ hasRole(ADMIN_ROLE, caller)) THEN E_Deactivate
    ELSE OK

deactivateRecordResultByAccess(caller, recordId) ==
    IF _paused THEN E_Paused
    ELSE IF ~Get(_records, recordId, ZeroRecord).isActive THEN E_NoRecord
    ELSE IF ~(\/ _hasAccess(recordId, caller)
              \/ hasRole(ADMIN_ROLE, caller)) THEN E_Deactivate
    ELSE OK

deactivateRecordResult(caller, recordId) ==
    IF _paused THEN E_Paused
    ELSE IF ~Get(_records, recordId, ZeroRecord).isActive THEN E_NoRecord
    ELSE IF ~(\/ Get(_records, recordId, ZeroRecord).createdBy = caller
              \/ hasRole(ADMIN_ROLE, caller)) THEN E_Deactivate
    ELSE OK

deactivateRecordPostNoEvent(caller, recordId) ==
    [State EXCEPT
        !.records = Put(@, recordId,
            [Get(@, recordId, ZeroRecord) EXCEPT !.isActive = FALSE])]

deactivateRecordPost(caller, recordId) ==
    [State EXCEPT
        !.records = Put(@, recordId,
            [Get(@, recordId, ZeroRecord) EXCEPT !.isActive = FALSE]),
        !.events = Append(@,
            [name |-> "RecordDeactivated", recordId |-> recordId,
             deactivatedBy |-> caller, timestamp |-> block.timestamp])]

deactivateRecord(caller, recordId) ==
    LET res == deactivateRecordResult(caller, recordId)
        post == deactivateRecordPost(caller, recordId)
    IN  /\ Apply(res, post)
        /\ last' = Call("deactivateRecord", caller,
                        [NoArgs EXCEPT !.recordId = recordId], res)
        /\ UNCHANGED block

-----------------------------------------------------------------------------
(* Emergency stop.                                                         *)

pauseResult(caller) ==
    IF ~hasRole(ADMIN_ROLE, caller) THEN E_Role
    ELSE IF _paused THEN E_Paused
    ELSE OK

pausePost(caller) == [State EXCEPT !.paused = TRUE]

pause(caller) ==
    /\ Apply(pauseResult(caller), pausePost(caller))
    /\ last' = Call("pause", caller, NoArgs, pauseResult(caller))
    /\ UNCHANGED block

unpauseResult(caller) ==
    IF ~hasRole(ADMIN_ROLE, caller) THEN E_Role
    ELSE IF ~_paused THEN E_NotPaused
    ELSE OK

unpausePost(caller) == [State EXCEPT !.paused = FALSE]

unpause(caller) ==
    /\ Apply(unpauseResult(caller), unpausePost(caller))
    /\ last' = Call("unpause", caller, NoArgs, unpauseResult(caller))
    /\ UNCHANGED block

-----------------------------------------------------------------------------
(* Role administration.  The contract is declared `is AccessControl` and   *)
(* overrides none of its functions, so grantRole, revokeRole and           *)
(* renounceRole of OpenZeppelin AccessControl are external functions of    *)
(* the contract.  They carry no whenNotPaused and emit none of the events  *)
(* the contract declares.                                                  *)

\* No role is given another admin role (_setRoleAdmin is never called), so
\* the admin role of every role is DEFAULT_ADMIN_ROLE.
getRoleAdmin(role) == DEFAULT_ADMIN_ROLE

grantRoleResult(caller, role, account) ==
    IF ~hasRole(getRoleAdmin(role), caller) THEN E_Role ELSE OK

grantRolePost(caller, role, account) ==
    [State EXCEPT !.roles[role] = @ \cup {account}]

grantRole(caller, role, account) ==
    /\ Apply(grantRoleResult(caller, role, account), grantRolePost(caller, role, account))
    /\ last' = Call("grantRole", caller,
                    [NoArgs EXCEPT !.role = role, !.organization = account],
                    grantRoleResult(caller, role, account))
    /\ UNCHANGED block

revokeRoleResult(caller, role, account) ==
    IF ~hasRole(getRoleAdmin(role), caller) THEN E_Role ELSE OK

revokeRolePost(caller, role, account) ==
    [State EXCEPT !.roles[role] = @ \ {account}]

revokeRole(caller, role, account) ==
    /\ Apply(revokeRoleResult(caller, role, account), revokeRolePost(caller, role, account))
    /\ last' = Call("revokeRole", caller,
                    [NoArgs EXCEPT !.role = role, !.organization = account],
                    revokeRoleResult(caller, role, account))
    /\ UNCHANGED block

renounceRoleResult(caller, role, callerConfirmation) ==
    IF callerConfirmation # caller THEN E_BadConfirmation ELSE OK

renounceRolePost(caller, role, callerConfirmation) ==
    [State EXCEPT !.roles[role] = @ \ {callerConfirmation}]

renounceRole(caller, role, callerConfirmation) ==
    /\ Apply(renounceRoleResult(caller, role, callerConfirmation),
             renounceRolePost(caller, role, callerConfirmation))
    /\ last' = Call("renounceRole", caller,
                    [NoArgs EXCEPT !.role = role, !.organization = callerConfirmation],
                    renounceRoleResult(caller, role, callerConfirmation))
    /\ UNCHANGED block

-----------------------------------------------------------------------------
(* The earlier contract (no pause, no cache, no batch, no deactivation).   *)
(* Its storage is the record `legacy`; `result` is the outcome of its      *)
(* latest call.  It runs on the same chain, so it reads the same block.    *)

L_Patient == "Invalid patient address"

L_Hash == "Data hash required"

L_NoRecord == "Record does not exist or is inactive"

L_InvalidOrg == "Invalid organization"

L_NoAccess == "You don't have access to this record"

L_Granted == "Access already granted"

\* The zero value of the earlier PatientRecord.
LegacyZeroRecord ==
    [recordId |-> <<0, 0, 0, 0>>, patientAddress |-> ZeroAddress,
     createdBy |-> ZeroAddress, timestamp |-> 0, encryptedDataHash |-> "",
     dataLocation |-> "", isActive |-> FALSE]

\* The constructor has run.
LegacyConstructed ==
    [roles |-> [r \in {DEFAULT_ADMIN_ROLE, ADMIN_ROLE, ORGANIZATION_ROLE} |->
                   IF r = ORGANIZATION_ROLE THEN {} ELSE {Deployer}],
     records |-> << >>, recordAccess |-> << >>,
     patientRecords |-> [a \in Address |-> << >>],
     organizationRecords |-> [a \in Address |-> << >>],
     allRecordIds |-> << >>, events |-> << >>, result |-> OK]

\* A transaction of the earlier contract: its writes are kept only when no
\* require failed.
LegacyCommit(res, post) ==
    IF res = OK THEN [post EXCEPT !.result = OK] ELSE [legacy EXCEPT !.result = res]

legacyHasRole(role, account) == account \in legacy.roles[role]

legacyHasAccess(recordId, organization) ==
    LET grants == Get(legacy.recordAccess, recordId, << >>) IN
    /\ Get(legacy.records, recordId, LegacyZeroRecord).isActive
    /\ \E i \in 1..Len(grants) :
          grants[i].organization = organization /\ ~grants[i].isRevoked

legacyGetRecordAccess(recordId) ==
    LET grants == Get(legacy.recordAccess, recordId, << >>)
        active == SelectSeq(grants, LAMBDA g : ~g.isRevoked)
    IN  [i \in 1..Len(active) |-> active[i].organization]

legacyRegisterOrganizationResult(caller, organization) ==
    IF ~legacyHasRole(ADMIN_ROLE, caller) THEN E_Role ELSE OK

legacyRegisterOrganizationPost(caller, organization) ==
    [legacy EXCEPT !.roles[ORGANIZATION_ROLE] = @ \cup {organization}]

legacyRegisterOrganization(caller, organization) ==
    LegacyCommit(legacyRegisterOrganizationResult(caller, organization),
                 legacyRegisterOrganizationPost(caller, organization))

\* keccak256(abi.encodePacked(...)) of the earlier createRecord, taken to be
\* injective on its packed input.
LegacyRecordId(patientAddress, sender) ==
    <<patientAddress, sender, block.timestamp, block.prevrandao>>

legacyCreateRecordResult(caller, patientAddress, strings) ==
    IF ~legacyHasRole(ORGANIZATION_ROLE, caller) THEN E_Role
    ELSE IF patientAddress = ZeroAddress THEN L_Patient
    ELSE IF StrLen(strings[1]) = 0 THEN L_Hash
    ELSE OK

legacyCreateRecordPost(caller, patientAddress, strings) ==
    LET recordId == LegacyRecordId(patientAddress, caller) IN
    [legacy EXCEPT
        !.records = Put(@, recordId,
            [recordId |-> recordId, patientAddress |-> patientAddress,
             createdBy |-> caller, timestamp |-> block.timestamp,
             encryptedDataHash |-> strings[1], dataLocation |-> strings[2],
             isActive |-> TRUE]),
        !.recordAccess = Put(@, recordId,
            Append(Get(@, recordId, << >>),
                   [organization |-> caller, grantedAt |-> block.timestamp,
                    isRevoked |-> FALSE])),
        !.patientRecords[patientAddress] = Append(@, recordId),
        !.organizationRecords[caller] = Append(@, recordId),
        !.allRecordIds = Append(@, recordId),
        !.events = Append(@,
            [name |-> "RecordCreated", recordId |-> recordId,
             patientAddress |-> patientAddress, createdBy |-> caller,
             timestamp |-> block.timestamp])]

legacyCreateRecord(caller, patientAddress, strings) ==
    LegacyCommit(legacyCreateRecordResult(caller, patientAddress, strings),
                 legacyCreateRecordPost(caller, patientAddress, strings))

legacyGrantAccessResult(caller, recordId, organization) ==
    IF ~legacyHasRole(ORGANIZATION_ROLE, caller) THEN E_Role
    ELSE IF ~Get(legacy.records, recordId, LegacyZeroRecord).isActive THEN L_NoRecord
    ELSE IF ~legacyHasRole(ORGANIZATION_ROLE, organization) THEN L_InvalidOrg
    ELSE IF ~legacyHasAccess(recordId, caller) THEN L_NoAccess
    ELSE IF \E i \in 1..Len(Get(legacy.recordAccess, recordId, << >>)) :
               /\ legacy.recordAccess[recordId][i].organization = organization
               /\ ~legacy.recordAccess[recordId][i].isRevoked
         THEN L_Granted
    ELSE OK

legacyGrantAccessPost(caller, recordId, organization) ==
    [legacy EXCEPT
        !.recordAccess = Put(@, recordId,
            Append(Get(@, recordId, << >>),
                   [organization |-> organization, grantedAt |-> block.timestamp,
                    isRevoked |-> FALSE])),
        !.organizationRecords[organization] = Append(@, recordId),
        !.events = Append(@,
            [name |-> "AccessGranted", recordId |-> recordId,
             organization |-> organization, grantedBy |-> caller])]

legacyGrantAccess(caller, recordId, organization) ==
    LegacyCommit(legacyGrantAccessResult(caller, recordId, organization),
                 legacyGrantAccessPost(caller, recordId, organization))

legacyRevokeAccessResult(caller, recordId, organization) ==
    IF ~legacyHasRole(ORGANIZATION_ROLE, caller) THEN E_Role
    ELSE IF ~Get(legacy.records, recordId, LegacyZeroRecord).isActive THEN L_NoRecord
    ELSE IF ~legacyHasAccess(recordId, caller) THEN L_NoAccess
    ELSE OK

\* The loop stops at the first entry of the organization, revoked or not,
\* and a call that finds none succeeds without a write.
legacyRevokeAccessPost(caller, recordId, organization) ==
    LET grants == Get(legacy.recordAccess, recordId, << >>)
        hit(i) == grants[i].organization = organization
        i == IF \E j \in 1..Len(grants) : hit(j)
             THEN CHOOSE j \in 1..Len(grants) : hit(j) /\ \A k \in 1..(j - 1) : ~hit(k)
             ELSE 0
    IN  IF i = 0 THEN legacy
        ELSE [legacy EXCEPT
                !.recordAccess = Put(@, recordId, [grants EXCEPT ![i].isRevoked = TRUE]),
                !.events = Append(@,
                    [name |-> "AccessRevoked", recordId |-> recordId,
                     organization |-> organization, revokedBy |-> caller])]

legacyRevokeAccess(caller, recordId, organization) ==
    LegacyCommit(legacyRevokeAccessResult(caller, recordId, organization),
                 legacyRevokeAccessPost(caller, recordId, organization))

-----------------------------------------------------------------------------
(* The frontend: lib/contract.ts and the HealthcareDB component.  A text   *)
(* is the sequence of its characters.                                      *)

Empty == << >>

\* process.env.NEXT_PUBLIC_CONTRACT_ADDRESS is not set.
Undefined == "undefined"

Null == "null"

Repeat(ch, n) == [i \in 1..n |-> ch]

Whitespace == {" ", "\t", "\n"}

HexDigits == {"0", "1", "2", "3", "4", "5", "6", "7", "8", "9",
              "a", "b", "c", "d", "e", "f", "A", "B", "C", "D", "E", "F"}

AddressHexLength == 40

RecordIdHexLength == 64

\* String.prototype.trim
RECURSIVE trim(_)
trim(s) ==
    IF Len(s) = 0 THEN s
    ELSE IF s[1] \in Whitespace THEN trim(Tail(s))
    ELSE IF s[Len(s)] \in Whitespace THEN trim(SubSeq(s, 1, Len(s) - 1))
    ELSE s

\* String.prototype.toLowerCase on the letters of the texts of the model.
toLowerCase(s) ==
    [i \in 1..Len(s) |->
        CASE s[i] = "A" -> "a" [] s[i] = "B" -> "b" [] s[i] = "C" -> "c"
          [] s[i] = "D" -> "d" [] s[i] = "E" -> "e" [] s[i] = "F" -> "f"
          [] s[i] = "H" -> "h" [] s[i] = "L" -> "l" [] s[i] = "X" -> "x"
          [] OTHER -> s[i]]

\* /^0x[a-fA-F0-9]{n}$/
HexPattern(s, n) ==
    /\ Len(s) = 2 + n
    /\ s[1] = "0"
    /\ s[2] = "x"
    /\ \A i \in 3..(2 + n) : s[i] \in HexDigits

\* An address in its EIP-55 spelling (the test vector of the EIP).
ChecksumVector == <<"0", "x", "5", "a", "A", "e", "b", "6", "0", "5", "3", "F", "3", "E", "9", "4", "C", "9", "b", "9", "A", "0", "9", "f", "3", "3", "6", "6", "9", "4", "3", "5", "E", "7", "E", "f", "1", "B", "e", "A", "e", "d">>

\* viem checksumAddress.  keccak256 is not computed: the spelling is
\* tabulated for the addresses of the texts of the model; an address of
\* digits only is its own spelling.
checksumAddress(address) ==
    IF toLowerCase(address) = toLowerCase(ChecksumVector) THEN ChecksumVector
    ELSE address

\* viem isAddress (strict): the pattern, and the EIP-55 spelling unless the
\* text is in lower case.
isAddress(address) ==
    IF ~HexPattern(address, AddressHexLength) THEN FALSE
    ELSE IF toLowerCase(address) = address THEN TRUE
    ELSE checksumAddress(address) = address

getContractAddress(env) ==
    IF env = Undefined \/ env = Empty THEN Null
    ELSE IF ~isAddress(env) THEN Null
    ELSE env

validateAddress(address) ==
    IF address = Empty \/ Len(trim(address)) = 0 THEN FALSE
    ELSE isAddress(address)

validateRecordId(recordId) ==
    IF recordId = Empty \/ Len(trim(recordId)) = 0 THEN FALSE
    ELSE HexPattern(recordId, RecordIdHexLength)

FormFields == {"patientAddress", "dataHash", "dataLocation", "grantRecordId",
               "grantOrgAddress", "revokeRecordId", "revokeOrgAddress"}

\* The object of the entries whose condition holds.
Entries(rows) ==
    [k \in {row[1] : row \in {x \in rows : x[3]}} |->
        (CHOOSE row \in rows : row[1] = k)[2]]

\* base.id and baseSepolia.id, the chains of the wagmi configuration.
BaseChainId == 8453

BaseSepoliaChainId == 84532

\* The component after its first render: useState of every field, the
\* contract address read from the environment, and no write yet.
HealthcareDB(env) ==
    [contractAddress |-> getContractAddress(env),
     isConnected |-> FALSE, chainId |-> BaseChainId,
     patientAddress |-> Empty, dataHash |-> Empty, dataLocation |-> Empty,
     grantRecordId |-> Empty, grantOrgAddress |-> Empty,
     revokeRecordId |-> Empty, revokeOrgAddress |-> Empty,
     errors |-> << >>,
     writes |-> << >>,
     handler |-> "render"]

validateFormNoHashCheck(formType) ==
    CASE formType = "create" ->
            Entries({
              <<"patientAddress", "Valid patient address is required",
                form.patientAddress = Empty \/ ~validateAddress(form.patientAddress)>>,
              <<"dataLocation", "Data location is required",
                form.dataLocation = Empty \/ Len(trim(form.dataLocation)) = 0>>})
      [] formType = "grant" ->
            Entries({
              <<"grantRecordId", "Valid record ID is required (0x followed by 64 hex characters)",
                form.grantRecordId = Empty \/ ~validateRecordId(form.grantRecordId)>>,
              <<"grantOrgAddress", "Valid organization address is required",
                form.grantOrgAddress = Empty \/ ~validateAddress(form.grantOrgAddress)>>})
      [] formType = "revoke" ->
            Entries({
              <<"revokeRecordId", "Valid record ID is required (0x followed by 64 hex characters)",
                form.revokeRecordId = Empty \/ ~validateRecordId(form.revokeRecordId)>>,
              <<"revokeOrgAddress", "Valid organization address is required",
                form.revokeOrgAddress = Empty \/ ~validateAddress(form.revokeOrgAddress)>>})

\* newErrors of validateForm; the form passes when it has no entry.
validateForm(formType) ==
    CASE formType = "create" ->
            Entries({
              <<"patientAddress", "Valid patient address is required",
                form.patientAddress = Empty \/ ~validateAddress(form.patientAddress)>>,
              <<"dataHash", "Data hash is required",
                form.dataHash = Empty \/ Len(trim(form.dataHash)) = 0>>,
              <<"dataLocation", "Data location is required",
                form.dataLocation = Empty \/ Len(trim(form.dataLocation)) = 0>>})
      [] formType = "grant" ->
            Entries({
              <<"grantRecordId", "Valid record ID is required (0x followed by 64 hex characters)",
                form.grantRecordId = Empty \/ ~validateRecordId(form.grantRecordId)>>,
              <<"grantOrgAddress", "Valid organization address is required",
                form.grantOrgAddress = Empty \/ ~validateAddress(form.grantOrgAddress)>>})
      [] formType = "revoke" ->
            Entries({
              <<"revokeRecordId", "Valid record ID is required (0x followed by 64 hex characters)",
                form.revokeRecordId = Empty \/ ~validateRecordId(form.revokeRecordId)>>,
              <<"revokeOrgAddress", "Valid organization address is required",
                form.revokeOrgAddress = Empty \/ ~validateAddress(form.revokeOrgAddress)>>})

\* The guard of the three handlers: the handler returns unless it is true.
Submits(formType) ==
    DOMAIN validateForm(formType) = {} /\ form.contractAddress # Null

\* A handler: validateForm sets the errors; the write is made only past the
\* guard.  writeContract returns or throws, and the catch sets errors.submit.
Handle(name, formType, functionName, args, message) ==
    /\ IF ~Submits(formType)
       THEN form' = [form EXCEPT !.errors = validateForm(formType),
                                 !.handler = name]
       ELSE \E thrown \in BOOLEAN :
               form' = [form EXCEPT
                   !.errors = IF thrown THEN [k \in {"submit"} |-> message]
                              ELSE validateForm(formType),
                   !.writes = Append(@, [address |-> form.contractAddress,
                                         functionName |-> functionName,
                                         args |-> args]),
                   !.handler = name]
    /\ UNCHANGED <<storage, block, last, legacy>>

handleCreateRecord ==
    Handle("handleCreateRecord", "create", "createRecord",
           <<form.patientAddress, form.dataHash, form.dataLocation>>,
           "Failed to create record")

handleGrantAccess ==
    Handle("handleGrantAccess", "grant", "grantAccess",
           <<form.grantRecordId, form.grantOrgAddress>>,
           "Failed to grant access")

handleRevokeAccess ==
    Handle("handleRevokeAccess", "revoke", "revokeAccess",
           <<form.revokeRecordId, form.revokeOrgAddress>>,
           "Failed to revoke access")

ScreenNoNetworkCheck ==
    IF ~form.isConnected THEN "connect"
    ELSE IF ~(form.contractAddress # Null) THEN "notConfigured"
    ELSE "forms"

\* What the component returns: the early returns in their order, then the
\* page with the forms.
Screen ==
    LET isContractConfigured == form.contractAddress # Null
        isBaseNetwork == form.chainId = BaseChainId \/ form.chainId = BaseSepoliaChainId
    IN  IF ~form.isConnected THEN "connect"
        ELSE IF ~isContractConfigured THEN "notConfigured"
        ELSE IF ~isBaseNetwork THEN "wrongNetwork"
        ELSE "forms"

\* The wallet: useAccount and useChainId give new values and the component
\* renders again.
connect ==
    /\ ~form.isConnected
    /\ form' = [form EXCEPT !.isConnected = TRUE, !.handler = "wallet"]
    /\ UNCHANGED <<storage, block, last, legacy>>

disconnect ==
    /\ form.isConnected
    /\ form' = [form EXCEPT !.isConnected = FALSE, !.handler = "wallet"]
    /\ UNCHANGED <<storage, block, last, legacy>>

switchChain(chainId) ==
    /\ form.chainId # chainId
    /\ form' = [form EXCEPT !.chainId = chainId, !.handler = "wallet"]
    /\ UNCHANGED <<storage, block, last, legacy>>

\* onChange of the input of a field: the text is stored and the error of the
\* field is emptied.
onChange(field, value) ==
    /\ form' = [form EXCEPT
           ![field] = value,
           !.errors = [k \in DOMAIN @ \cup {field} |->
                          IF k = field THEN "" ELSE @[k]],
           !.handler = "onChange"]
    /\ UNCHANGED <<storage, block, last, legacy>>

-----------------------------------------------------------------------------
(* The chain and the state machine.                                        *)

\* A new block: later transactions see a higher number, a later timestamp
\* and another prevrandao.
mine ==
    /\ block.number < MaxBlock
    /\ \E r \in Prevrandao :
          block' = [number |-> block.number + 1,
                    timestamp |-> block.timestamp + 1, prevrandao |-> r]
    /\ UNCHANGED <<storage, last>>

\* The record ids a caller may name: those created, and one of no record.
RecordIdInputs == {_allRecordIds[i] : i \in 1..Len(_allRecordIds)} \cup {ZeroId}

\* The constructor has run: the deployer holds both admin roles.
Init ==
    /\ _roles = [r \in {DEFAULT_ADMIN_ROLE, ADMIN_ROLE, ORGANIZATION_ROLE} |->
                    IF r = ORGANIZATION_ROLE THEN {} ELSE {Deployer}]
    /\ _paused = FALSE
    /\ _records = << >>
    /\ _recordAccess = << >>
    /\ _patientRecords = [a \in Address |-> << >>]
    /\ _organizationRecords = [a \in Address |-> << >>]
    /\ _hasAccessCache = {}
    /\ _allRecordIds = << >>
    /\ _registeredOrganizations = << >>
    /\ events = << >>
    /\ block = [number |-> 1, timestamp |-> 1, prevrandao |-> 0]
    /\ last = Call("constructor", Deployer, NoArgs, OK)
    /\ form = HealthcareDB(Undefined)
    /\ legacy = LegacyConstructed

\* A step of the exploration.  A rejected call changes nothing but `last`,
\* so it is explored as the final call of a behaviour: every storage
\* reachable with rejected calls in between is reachable without them.
Step(A, maxLog) ==
    /\ last.result = OK
    /\ A
    /\ Len(events') <= maxLog
    /\ UNCHANGED <<form, legacy>>

Next ==
    \/ \E c \in Callers, o \in OrganizationInputs :
          Step(registerOrganization(c, o), MaxLog)
    \/ \E c \in Callers, os \in BatchInputs :
          Step(batchRegisterOrganizations(c, os), MaxLog)
    \/ \E c \in Callers, p \in PatientInputs, ss \in CreateStrings :
          Step(createRecord(c, p, ss), MaxLog)
    \/ \E c \in Callers, r \in RecordIdInputs, o \in Address :
          Step(grantAccess(c, r, o), MaxLog)
    \/ \E c \in Callers, r \in RecordIdInputs, o \in Address :
          Step(revokeAccess(c, r, o), MaxLog)
    \/ \E c \in Callers, r \in RecordIdInputs, ss \in UpdateStrings :
          Step(updateRecord(c, r, ss), MaxLog)
    \/ \E c \in Callers, r \in RecordIdInputs : Step(deactivateRecord(c, r), MaxLog)
    \/ \E c \in Callers : Step(pause(c), MaxLog)
    \/ \E c \in Callers : Step(unpause(c), MaxLog)
    \/ Step(mine, MaxLog)

Spec == Init /\ [][Next]_vars

-----------------------------------------------------------------------------
(* The grant ledger of one record, explored further: the deployer has      *)
(* registered the organizations 2 and 3 in one batch and organization 2    *)
(* has created a record for patient 3, all in the first block.             *)

LedgerOrganizations == <<2, 3>>

LedgerRecordId == <<3, 2, 1, 0, 1, 0>>

\* The contract in that state.
LedgerDeployed ==
    /\ _roles = [r \in {DEFAULT_ADMIN_ROLE, ADMIN_ROLE, ORGANIZATION_ROLE} |->
                    IF r = ORGANIZATION_ROLE THEN {2, 3} ELSE {Deployer}]
    /\ _paused = FALSE
    /\ _records = (LedgerRecordId :>
                    [recordId |-> LedgerRecordId, patientAddress |-> 3,
                     createdBy |-> 2, timestamp |-> 1, lastUpdated |-> 1,
                     encryptedDataHash |-> "H1", dataLocation |-> "ipfs://L1",
                     isActive |-> TRUE])
    /\ _recordAccess = (LedgerRecordId :>
                    <<[organization |-> 2, grantedAt |-> 1, revokedAt |-> 0,
                       isRevoked |-> FALSE]>>)
    /\ _patientRecords = [a \in Address |-> IF a = 3 THEN <<LedgerRecordId>> ELSE << >>]
    /\ _organizationRecords = [a \in Address |-> IF a = 2 THEN <<LedgerRecordId>> ELSE << >>]
    /\ _hasAccessCache = {<<LedgerRecordId, 2>>}
    /\ _allRecordIds = <<LedgerRecordId>>
    /\ _registeredOrganizations = LedgerOrganizations
    /\ events = <<OrganizationRegistered(2, Deployer), OrganizationRegistered(3, Deployer),
                  [name |-> "RecordCreated", recordId |-> LedgerRecordId,
                   patientAddress |-> 3, createdBy |-> 2, timestamp |-> 1,
                   encryptedDataHash |-> "H1", dataLocation |-> "ipfs://L1"]>>
    /\ block = [number |-> 1, timestamp |-> 1, prevrandao |-> 0]
    /\ last = Call("createRecord", 2,
                   [NoArgs EXCEPT !.patientAddress = 3, !.strings = <<"H1", "ipfs://L1">>,
                                  !.recordId = LedgerRecordId], OK)

InitLedger ==
    /\ LedgerDeployed
    /\ form = HealthcareDB(Undefined)
    /\ legacy = LegacyConstructed

NextLedger ==
    \/ \E c \in Callers, r \in RecordIdInputs, o \in Address :
          Step(grantAccess(c, r, o), MaxLedgerLog)
    \/ \E c \in Callers, r \in RecordIdInputs, o \in Address :
          Step(revokeAccess(c, r, o), MaxLedgerLog)
    \/ \E c \in Callers, r \in RecordIdInputs :
          Step(deactivateRecord(c, r), MaxLedgerLog)
    \/ Step(mine, MaxLedgerLog)

SpecLedger == InitLedger /\ [][NextLedger]_vars

\* Every operation on records from the same state, less far, while the
\* system runs.
NextRecord ==
    \/ \E c \in Callers, p \in PatientInputs, ss \in CreateStrings :
          Step(createRecord(c, p, ss), MaxRecordLog)
    \/ \E c \in Callers, r \in RecordIdInputs, o \in Address :
          Step(grantAccess(c, r, o), MaxRecordLog)
    \/ \E c \in Callers, r \in RecordIdInputs, o \in Address :
          Step(revokeAccess(c, r, o), MaxRecordLog)
    \/ \E c \in Callers, r \in RecordIdInputs, ss \in UpdateStrings :
          Step(updateRecord(c, r, ss), MaxRecordLog)
    \/ \E c \in Callers, r \in RecordIdInputs : Step(deactivateRecord(c, r), MaxRecordLog)
    \/ Step(mine, MaxRecordLog)

SpecRecord == InitLedger /\ [][NextRecord]_vars

\* Records of several patients: every function of the contract on the
\* deployment with two organizations and one record, within one block, with
\* patients that are the zero address, an account without role, and an
\* organization.  The deployer can be registered as a third organization,
\* alone or in a batch that names it twice.
MaxCountLog == 5

CountPatientInputs == {ZeroAddress, Deployer, 3}

CountBatchInputs == BatchInputs \cup {<<Deployer, ZeroAddress, Deployer>>}

NextCount ==
    \/ \E c \in Callers, o \in Address :
          Step(registerOrganization(c, o), MaxCountLog)
    \/ \E c \in Callers, os \in CountBatchInputs :
          Step(batchRegisterOrganizations(c, os), MaxCountLog)
    \/ \E c \in Callers, p \in CountPatientInputs, ss \in CreateStrings :
          Step(createRecord(c, p, ss), MaxCountLog)
    \/ \E c \in Callers, r \in RecordIdInputs, o \in Address :
          Step(grantAccess(c, r, o), MaxCountLog)
    \/ \E c \in Callers, r \in RecordIdInputs, o \in Address :
          Step(revokeAccess(c, r, o), MaxCountLog)
    \/ \E c \in Callers, r \in RecordIdInputs, ss \in UpdateStrings :
          Step(updateRecord(c, r, ss), MaxCountLog)
    \/ \E c \in Callers, r \in RecordIdInputs : Step(deactivateRecord(c, r), MaxCountLog)
    \/ \E c \in Callers : Step(pause(c), MaxCountLog)
    \/ \E c \in Callers : Step(unpause(c), MaxCountLog)

SpecCount == InitLedger /\ [][NextCount]_vars

\* The roles over time: registration, the inherited role administration and
\* the record functions whose right depends on the Organization role, on the
\* deployment with two organizations and one record, within one block.
MaxRolesLog == 4

RoleInputs == {ORGANIZATION_ROLE}

NextRoles ==
    \/ \E c \in Callers, o \in Address :
          Step(registerOrganization(c, o), MaxRolesLog)
    \/ \E c \in Callers, os \in CountBatchInputs :
          Step(batchRegisterOrganizations(c, os), MaxRolesLog)
    \/ \E c \in Callers, role \in RoleInputs, a \in Callers :
          Step(grantRole(c, role, a), MaxRolesLog)
    \/ \E c \in Callers, role \in RoleInputs, a \in Callers :
          Step(revokeRole(c, role, a), MaxRolesLog)
    \/ \E c \in Callers, role \in RoleInputs, a \in Callers :
          Step(renounceRole(c, role, a), MaxRolesLog)
    \/ \E c \in Callers, p \in PatientInputs, ss \in CreateStrings :
          Step(createRecord(c, p, ss), MaxRolesLog)
    \/ \E c \in Callers, r \in RecordIdInputs, o \in Address :
          Step(grantAccess(c, r, o), MaxRolesLog)
    \/ \E c \in Callers, r \in RecordIdInputs, o \in Address :
          Step(revokeAccess(c, r, o), MaxRolesLog)

SpecRoles == InitLedger /\ [][NextRoles]_vars

\* The page of the frontend over a freshly deployed contract.  The texts
\* typed are, for an address: blanks, an address in lower case, one in its
\* EIP-55 spelling, the same with one letter in the other case, one after a
\* blank and one a digit short; for a record id: a well formed one, one a digit long and one
\* without 0x; for the hash and the location: blanks and a text.
MaxWrites == 1

MaxTyped == 3

LowerAddress == <<"0", "x">> \o Repeat("a", AddressHexLength)

MisspeltAddress == <<"0", "x", "5", "a", "a", "e", "b", "6", "0", "5", "3", "F", "3", "E", "9", "4", "C", "9", "b", "9", "A", "0", "9", "f", "3", "3", "6", "6", "9", "4", "3", "5", "E", "7", "E", "f", "1", "B", "e", "A", "e", "d">>

EnvInputs == {Undefined, <<"0", "x", "1", "2">>, LowerAddress}

PatientTexts == {<<" ">>, LowerAddress, MisspeltAddress}

GrantOrganizationTexts == {ChecksumVector, <<" ">> \o LowerAddress}

RevokeOrganizationTexts == {LowerAddress,
                            <<"0", "x">> \o Repeat("a", AddressHexLength - 1)}

WellFormedId == <<"0", "x">> \o Repeat("b", RecordIdHexLength - 1) \o <<"F">>

GrantRecordIdTexts == {WellFormedId, WellFormedId \o <<"0">>}

RevokeRecordIdTexts == {WellFormedId, Repeat("b", RecordIdHexLength + 2)}

HashTexts == {<<" ", " ">>, <<"H", "1">>}

LocationTexts == {<<"\t">>, <<" ", "L", "1">>}

FieldTexts(field) ==
    CASE field = "patientAddress" -> PatientTexts
      [] field = "grantOrgAddress" -> GrantOrganizationTexts
      [] field = "revokeOrgAddress" -> RevokeOrganizationTexts
      [] field = "grantRecordId" -> GrantRecordIdTexts
      [] field = "revokeRecordId" -> RevokeRecordIdTexts
      [] field = "dataHash" -> HashTexts
      [] field = "dataLocation" -> LocationTexts

InitForm ==
    /\ _roles = [r \in {DEFAULT_ADMIN_ROLE, ADMIN_ROLE, ORGANIZATION_ROLE} |->
                    IF r = ORGANIZATION_ROLE THEN {} ELSE {Deployer}]
    /\ _paused = FALSE
    /\ _records = << >>
    /\ _recordAccess = << >>
    /\ _patientRecords = [a \in Address |-> << >>]
    /\ _organizationRecords = [a \in Address |-> << >>]
    /\ _hasAccessCache = {}
    /\ _allRecordIds = << >>
    /\ _registeredOrganizations = << >>
    /\ events = << >>
    /\ block = [number |-> 1, timestamp |-> 1, prevrandao |-> 0]
    /\ last = Call("constructor", Deployer, NoArgs, OK)
    /\ \E env \in EnvInputs : form = HealthcareDB(env)
    /\ legacy = LegacyConstructed

\* A step of the page.  Each field is typed once, at most MaxTyped fields
\* are filled, and the page is followed up to MaxWrites writes.
FormStep(A) ==
    /\ A
    /\ Len(form'.writes) <= MaxWrites
    /\ Cardinality({field \in FormFields : form'[field] # Empty}) <= MaxTyped

NextForm ==
    \/ \E field \in FormFields : \E value \in FieldTexts(field) :
          form[field] = Empty /\ FormStep(onChange(field, value))
    \/ FormStep(handleCreateRecord)
    \/ FormStep(handleGrantAccess)
    \/ FormStep(handleRevokeAccess)

SpecForm == InitForm /\ [][NextForm]_vars

\* The page with its wallet: the inputs and the buttons exist only on the
\* screen with the forms, the wallet connects, disconnects and changes chain
\* at any time.  The chains are Ethereum, Base and Base Sepolia.
MaxPageWrites == 1

MaxPageTyped == 2

ChainInputs == {1, BaseChainId, BaseSepoliaChainId}

PageStep(A) ==
    /\ A
    /\ Len(form'.writes) <= MaxPageWrites
    /\ Cardinality({field \in FormFields : form'[field] # Empty}) <= MaxPageTyped

NextPage ==
    \/ PageStep(connect)
    \/ PageStep(disconnect)
    \/ \E chainId \in ChainInputs : PageStep(switchChain(chainId))
    \/ \E field \in FormFields : \E value \in FieldTexts(field) :
          Screen = "forms" /\ form[field] = Empty /\ PageStep(onChange(field, value))
    \/ Screen = "forms" /\ PageStep(handleCreateRecord)
    \/ Screen = "forms" /\ PageStep(handleGrantAccess)
    \/ Screen = "forms" /\ PageStep(handleRevokeAccess)

SpecPage == InitForm /\ [][NextPage]_vars

\* The two contracts side by side, from the state in which the deployer of
\* both has registered organizations 2 and 3 and organization 2 has created
\* a record for patient 3 in both.  Every call is made to both with the same
\* caller and arguments in the same block, a record being named by the id
\* each contract returned for it.  A behaviour is followed while the later
\* contract accepts the calls.
MaxLegacyLog == 7

\* The earlier contract after the same three calls.
LegacyLedgerRecordId == <<3, 2, 1, 0>>

LegacyLedger ==
    [LegacyConstructed EXCEPT
        !.roles[ORGANIZATION_ROLE] = {2, 3},
        !.records = (LegacyLedgerRecordId :>
            [recordId |-> LegacyLedgerRecordId, patientAddress |-> 3,
             createdBy |-> 2, timestamp |-> 1, encryptedDataHash |-> "H1",
             dataLocation |-> "ipfs://L1", isActive |-> TRUE]),
        !.recordAccess = (LegacyLedgerRecordId :>
            <<[organization |-> 2, grantedAt |-> 1, isRevoked |-> FALSE]>>),
        !.patientRecords[3] = <<LegacyLedgerRecordId>>,
        !.organizationRecords[2] = <<LegacyLedgerRecordId>>,
        !.allRecordIds = <<LegacyLedgerRecordId>>,
        !.events = <<[name |-> "RecordCreated", recordId |-> LegacyLedgerRecordId,
                      patientAddress |-> 3, createdBy |-> 2, timestamp |-> 1]>>]

InitBoth ==
    /\ LedgerDeployed
    /\ form = HealthcareDB(Undefined)
    /\ legacy = LegacyLedger

BothStep(A, after, maxLog) ==
    /\ last.result = OK
    /\ A
    /\ legacy' = after
    /\ Len(events') <= maxLog
    /\ UNCHANGED form

\* The records both contracts have created, by their order of creation.
BothRecords ==
    {k \in 1..Len(_allRecordIds) : k <= Len(legacy.allRecordIds)}

NextLegacy ==
    \/ \E c \in Callers, o \in OrganizationInputs :
          BothStep(registerOrganization(c, o),
                   legacyRegisterOrganization(c, o), MaxLegacyLog)
    \/ \E c \in Callers, p \in PatientInputs, ss \in CreateStrings :
          BothStep(createRecord(c, p, ss),
                   legacyCreateRecord(c, p, ss), MaxLegacyLog)
    \/ \E c \in Callers, k \in BothRecords, o \in Address :
          BothStep(grantAccess(c, _allRecordIds[k], o),
                   legacyGrantAccess(c, legacy.allRecordIds[k], o), MaxLegacyLog)
    \/ \E c \in Callers, k \in BothRecords, o \in Address :
          BothStep(revokeAccess(c, _allRecordIds[k], o),
                   legacyRevokeAccess(c, legacy.allRecordIds[k], o), MaxLegacyLog)
    \/ BothStep(mine, legacy, MaxLegacyLog)

SpecLegacy == InitBoth /\ [][NextLegacy]_vars

\* The initial state of SpecLedger is a state of Spec.
LedgerStateReached ==
    /\ _allRecordIds = <<LedgerRecordId>>
    /\ _registeredOrganizations = LedgerOrganizations
    /\ Len(events) = 3
    /\ block.number = 1
    /\ last.op = "createRecord"

-----------------------------------------------------------------------------
(* Vocabulary of the properties.                                           *)

\* Every record id the storage knows.
KnownRecordIds == DOMAIN _records \cup DOMAIN _recordAccess

\* The indices of the entries of organization o in the grant list of r that
\* are not revoked.
ActiveEntries(r, o) ==
    LET grants == Get(_recordAccess, r, << >>) IN
    {i \in 1..Len(grants) : grants[i].organization = o /\ ~grants[i].isRevoked}

RevokedEntries(r, o) ==
    LET grants == Get(_recordAccess, r, << >>) IN
    {i \in 1..Len(grants) : grants[i].organization = o /\ grants[i].isRevoked}

NoDuplicates(seq) == \A i, j \in 1..Len(seq) : seq[i] = seq[j] => i = j

EventsNamed(name) == {i \in 1..Len(events) : events[i].name = name}

WriteOps == {"registerOrganization", "batchRegisterOrganizations", "createRecord",
             "updateRecord", "deactivateRecord", "grantAccess", "revokeAccess"}

AdminOps == {"registerOrganization", "batchRegisterOrganizations", "pause", "unpause"}

Succeeded(op) == last.op = op /\ last.result = OK

\* What the read operations return, for every argument.
Reads ==
    <<[r \in KnownRecordIds \cup {ZeroId} |-> getRecord(r)],
      [r \in KnownRecordIds \cup {ZeroId} |-> [o \in Address |-> hasAccess(r, o)]],
      [r \in KnownRecordIds \cup {ZeroId} |-> getRecordAccess(r)],
      [a \in Address |-> getPatientRecords(a)],
      [a \in Address |-> getPatientRecordCount(a)],
      [a \in Address |-> getOrganizationRecords(a)],
      getTotalRecordCount, getOrganizationCount, getAllOrganizations>>

-----------------------------------------------------------------------------
(* C1: in every reachable state the grant list of a record holds at most   *)
(* one entry that is not revoked for each organization, and                *)
(* getRecordAccess lists no organization twice and none whose access is    *)
(* revoked (every organization listed is one the access cache, and on an   *)
(* active record hasAccess, reports as having access).                     *)
C1_OneActiveGrant ==
    \A r \in KnownRecordIds :
        /\ \A o \in Address : Cardinality(ActiveEntries(r, o)) <= 1
        /\ NoDuplicates(getRecordAccess(r))
        /\ \A i \in 1..Len(getRecordAccess(r)) :
              /\ <<r, getRecordAccess(r)[i]>> \in _hasAccessCache
              /\ getRecord(r).isActive => hasAccess(r, getRecordAccess(r)[i])

\* An organization revoked and granted again is listed, once, beside the creator.
C1_Witness ==
    \E r \in KnownRecordIds : \E o \in Address :
        /\ RevokedEntries(r, o) # {}
        /\ ActiveEntries(r, o) # {}
        /\ Len(getRecordAccess(r)) = 2

(* C2: whoever has access to a record holds the Organization role, and     *)
(* every createRecord, grantAccess, revokeAccess and updateRecord that      *)
(* succeeded was called by a holder of the Organization role.              *)
C2_AccessImpliesOrganization ==
    /\ \A r \in KnownRecordIds : \A o \in Address :
          hasAccess(r, o) => hasRole(ORGANIZATION_ROLE, o)
    /\ \A r \in KnownRecordIds : \A i \in 1..Len(getRecordAccess(r)) :
          hasRole(ORGANIZATION_ROLE, getRecordAccess(r)[i])
    /\ (/\ last.op \in {"createRecord", "grantAccess", "revokeAccess", "updateRecord"}
        /\ last.result = OK) => hasRole(ORGANIZATION_ROLE, last.caller)

\* A grant has succeeded while the deployer, never registered, has no access.
C2_Witness ==
    /\ Succeeded("grantAccess")
    /\ hasAccess(last.recordId, last.organization)
    /\ ~hasRole(ORGANIZATION_ROLE, Deployer)
    /\ \A r \in KnownRecordIds : ~hasAccess(r, Deployer)

(* C3: no two successful createRecord calls return the same id: the ids of *)
(* the RecordCreated events are pairwise distinct, and so are the ids      *)
(* pushed to _allRecordIds.                                                *)
C3_RecordIdsUnique ==
    /\ NoDuplicates(_allRecordIds)
    /\ \A i, j \in EventsNamed("RecordCreated") :
          events[i].recordId = events[j].recordId => i = j
    /\ Cardinality(EventsNamed("RecordCreated")) = Len(_allRecordIds)

\* Two creations by the same organization for the same patient with the same
\* timestamp, randomness and block number.
C3_Witness ==
    \E i, j \in EventsNamed("RecordCreated") :
        /\ i < j
        /\ events[i].patientAddress = events[j].patientAddress
        /\ events[i].createdBy = events[j].createdBy
        /\ events[i].timestamp = events[j].timestamp
        /\ events[i].recordId[4] = events[j].recordId[4]
        /\ events[i].recordId[5] = events[j].recordId[5]

(* C4: a record that is stored and inactive is inactive after every step,  *)
(* and a record becomes active only in the createRecord that stores it     *)
(* first: nonexistent -> active -> inactive and nothing else.              *)
C4_InactiveIsTerminal ==
    [][/\ \A r \in DOMAIN _records :
            /\ r \in DOMAIN _records'
            /\ ~_records[r].isActive => ~_records'[r].isActive
       /\ \A r \in DOMAIN _records' \ DOMAIN _records :
            /\ _records'[r].isActive
            /\ last'.op = "createRecord" /\ last'.recordId = r]_vars

\* A creation has succeeded after a record was deactivated.
C4_Witness ==
    /\ Succeeded("createRecord")
    /\ \E r \in DOMAIN _records : ~_records[r].isActive
    /\ EventsNamed("RecordDeactivated") # {}

C6_CreatorHasAccess ==
    Succeeded("createRecord") =>
        /\ hasAccess(last.recordId, last.caller)
        /\ \A o \in Address \ {last.caller} : ~hasAccess(last.recordId, o)
        /\ getRecordAccess(last.recordId) = <<last.caller>>

\* The second record is created while another organization holds a grant on the first.
C6_Witness ==
    /\ Succeeded("createRecord")
    /\ Len(_allRecordIds) = 2
    /\ \E o \in Address \ {last.caller} : hasAccess(_allRecordIds[1], o)

(* C7: right after a successful revokeAccess(r, o) hasAccess(r, o) is      *)
(* false; whenever o has lost its access to an active record this way and  *)
(* the system runs, grantAccess(r, o) by any caller with access succeeds;  *)
(* and right after a successful grantAccess(r, o) hasAccess(r, o) is true, *)
(* however many entries of o were revoked before.                          *)
C7_RevokeThenGrant ==
    /\ Succeeded("revokeAccess") => ~hasAccess(last.recordId, last.organization)
    /\ Succeeded("grantAccess") => hasAccess(last.recordId, last.organization)
    /\ \A r \in KnownRecordIds : \A o \in Address :
          (/\ RevokedEntries(r, o) # {}
           /\ ~hasAccess(r, o)
           /\ getRecord(r).isActive
           /\ ~_paused)
          => \A c \in Callers :
                hasAccess(r, c) => grantAccessResult(c, r, o) = OK

\* The third grant of the same organization, after two revocations.
C7_Witness ==
    /\ Succeeded("grantAccess")
    /\ Cardinality(RevokedEntries(last.recordId, last.organization)) = 2
    /\ hasAccess(last.recordId, last.organization)

(* C8: right after a successful deactivateRecord(r) another                *)
(* deactivateRecord(r), by any caller, is rejected NotFound; and no        *)
(* account has access to an inactive record, the creator and the holders   *)
(* of grants that are not revoked included.                                *)
C8_DeactivatedIsGone ==
    /\ Succeeded("deactivateRecord") =>
          \A c \in Callers :
             ErrorKind(deactivateRecordResult(c, last.recordId)) = "NotFound"
    /\ \A r \in KnownRecordIds :
          ~getRecord(r).isActive => \A o \in Address : ~hasAccess(r, o)

\* The deactivated record has grants of two organizations that are not revoked.
C8_Witness ==
    /\ Succeeded("deactivateRecord")
    /\ Len(getRecordAccess(last.recordId)) = 2
    /\ getRecord(last.recordId).createdBy = getRecordAccess(last.recordId)[1]

(* C9, as stated: while paused every write operation is rejected with      *)
(* Paused.                                                                 *)
C9_PausedRejectsWithPaused ==
    (_paused /\ last.op \in WriteOps) => ErrorKind(last.result) = "Paused"

(* C9, amended: while paused every write operation is rejected and changes *)
(* neither the storage nor what the reads return; the error is Paused      *)
(* unless a check the code makes before the pause check fails: the role    *)
(* check of the caller (Unauthorized) and, in registerOrganization, the    *)
(* zero-address check (InvalidArgument).                                   *)
C9_PausedRejectsWrites ==
    [][(_paused /\ last'.op \in WriteOps) =>
          /\ UNCHANGED storage
          /\ Reads' = Reads
          /\ \/ last'.result = E_Paused
             \/ /\ last'.result = E_Role
                /\ last'.op # "deactivateRecord"
                /\ ~hasRole(IF last'.op \in AdminOps THEN ADMIN_ROLE
                            ELSE ORGANIZATION_ROLE, last'.caller)
             \/ /\ last'.result = E_Address
                /\ last'.op = "registerOrganization"
                /\ last'.organization = ZeroAddress]_vars

\* A creation by a registered organization is rejected Paused with a record stored.
C9_Witness ==
    /\ _paused
    /\ last.op = "createRecord"
    /\ last.result = E_Paused
    /\ hasRole(ORGANIZATION_ROLE, last.caller)
    /\ Len(_allRecordIds) > 0

(* C10: registerOrganization, batchRegisterOrganizations, pause and        *)
(* unpause called by an account without the Admin role are rejected        *)
(* Unauthorized; a step that changes the roles or the pause flag is one of *)
(* these four calls by a holder of the Admin role; and every holder of the *)
(* Organization role has an OrganizationRegistered event whose             *)
(* registeredBy holds the Admin role.                                      *)
C10_AdminOnly ==
    [][/\ (last'.op \in AdminOps /\ ~hasRole(ADMIN_ROLE, last'.caller))
            => ErrorKind(last'.result) = "Unauthorized"
       /\ (_roles' # _roles \/ _paused' # _paused)
            => /\ last'.op \in AdminOps
               /\ last'.result = OK
               /\ hasRole(ADMIN_ROLE, last'.caller)
       /\ \A o \in _roles'[ORGANIZATION_ROLE] :
             \E i \in 1..Len(events') :
                /\ events'[i].name = "OrganizationRegistered"
                /\ events'[i].organization = o
                /\ hasRole(ADMIN_ROLE, events'[i].registeredBy)]_vars

\* A registered organization tried to pause and was refused.
C10_Witness ==
    /\ last.op = "pause"
    /\ last.result = E_Role
    /\ hasRole(ORGANIZATION_ROLE, last.caller)
    /\ ~_paused

-----------------------------------------------------------------------------
(* Vocabulary of the properties of single calls.                           *)

\* The step is a call of op: a block is not mined, and the receipt or the
\* event log is new.
Called(op) ==
    /\ last'.op = op
    /\ block' = block
    /\ last' # last \/ events' # events

\* What hasAccess returns, for every record and account.
AccessTable ==
    [r \in KnownRecordIds \cup {ZeroId} |-> [o \in Address |-> hasAccess(r, o)]]

\* The elements of a sequence.
Range(seq) == {seq[i] : i \in 1..Len(seq)}

\* The first precondition of grantAccess(r, o) by c that fails, in the order
\* record active, target an organization, caller has access, target has none.
GrantDefect(c, r, o) ==
    IF ~getRecord(r).isActive THEN "NotFound"
    ELSE IF ~hasRole(ORGANIZATION_ROLE, o) THEN "InvalidArgument"
    ELSE IF ~hasAccess(r, c) THEN "Unauthorized"
    ELSE IF hasAccess(r, o) THEN "AlreadyGranted"
    ELSE "Success"

(* C11: a grantAccess(r, o) by c that succeeds found r active, o a holder  *)
(* of the Organization role, c with access and o without; a grantAccess    *)
(* that is rejected appends no grant entry and changes nothing else; and   *)
(* while the system runs the rejection is NotFound, InvalidArgument,       *)
(* Unauthorized or AlreadyGranted after the first of the four conditions   *)
(* that fails, for a caller that holds the Organization role, and          *)
(* Unauthorized for a caller that does not (it has no access).             *)
C11_GrantPreconditions ==
    [][Called("grantAccess") =>
         LET c == last'.caller
             r == last'.recordId
             o == last'.organization
         IN  /\ last'.result = OK => GrantDefect(c, r, o) = "Success"
             /\ last'.result # OK => UNCHANGED storage
             /\ (~_paused /\ hasRole(ORGANIZATION_ROLE, c))
                   => ErrorKind(last'.result) = GrantDefect(c, r, o)
             /\ (~_paused /\ ~hasRole(ORGANIZATION_ROLE, c))
                   => /\ ErrorKind(last'.result) = "Unauthorized"
                      /\ ~hasAccess(r, c)]_vars

\* A grantee asked for a grant to an account that is no organization.
C11_Witness ==
    /\ last.op = "grantAccess"
    /\ last.result = E_InvalidOrg
    /\ hasAccess(last.recordId, last.caller)
    /\ getRecord(last.recordId).createdBy # last.caller
    /\ last.organization # ZeroAddress

(* C12: a successful grantAccess(r, o) leaves hasAccess(r, o) true,        *)
(* appends to the grant list of r exactly one entry, of o and not revoked, *)
(* lists r among the records of o, and changes neither the access of any   *)
(* other organization to r, nor the access of anyone to another record,    *)
(* nor the grant list of another record.                                   *)
C12_GrantEffect ==
    [][(Called("grantAccess") /\ last'.result = OK) =>
         LET r == last'.recordId
             o == last'.organization
         IN  /\ AccessTable'[r][o]
             /\ _recordAccess'[r] = Append(_recordAccess[r], AccessGrant(o))
             /\ ActiveEntries(r, o) = {}
             /\ r \in Range(_organizationRecords'[o])
             /\ \A r2 \in DOMAIN AccessTable : \A o2 \in Address :
                   <<r2, o2>> # <<r, o>> => AccessTable'[r2][o2] = AccessTable[r2][o2]
             /\ \A r2 \in KnownRecordIds \ {r} : _recordAccess'[r2] = _recordAccess[r2]
             /\ \A o2 \in Address \ {o} :
                   _organizationRecords'[o2] = _organizationRecords[o2]]_vars

\* The grant is made on one of two records, to an organization that holds
\* access to the other record.
C12_Witness ==
    /\ Succeeded("grantAccess")
    /\ Len(_allRecordIds) = 2
    /\ \E r2 \in KnownRecordIds \ {last.recordId} : hasAccess(r2, last.organization)
    /\ Len(getRecordAccess(last.recordId)) = 2

(* C13: a revokeAccess(r, o) by c that succeeds found r active, c with     *)
(* access, o another account than c, and o with access; a revokeAccess of  *)
(* the caller's own access never succeeds and, while the system runs and   *)
(* the caller has access, is rejected InvalidArgument; revoking the access *)
(* of another account that has none is then rejected NotGranted; and a     *)
(* rejected revokeAccess marks no grant entry and changes nothing else.    *)
C13_RevokePreconditions ==
    [][Called("revokeAccess") =>
         LET c == last'.caller
             r == last'.recordId
             o == last'.organization
         IN  /\ last'.result = OK =>
                   /\ getRecord(r).isActive
                   /\ hasAccess(r, c)
                   /\ o # c
                   /\ hasAccess(r, o)
             /\ o = c => last'.result # OK
             /\ (~_paused /\ hasAccess(r, c) /\ o = c)
                   => ErrorKind(last'.result) = "InvalidArgument"
             /\ (~_paused /\ hasAccess(r, c) /\ o \notin {c, ZeroAddress}
                    /\ ~hasAccess(r, o))
                   => ErrorKind(last'.result) = "NotGranted"
             /\ last'.result # OK => UNCHANGED storage]_vars

\* The creator revokes a second time the access it has already revoked.
C13_Witness ==
    /\ last.op = "revokeAccess"
    /\ last.result = E_NotGranted
    /\ RevokedEntries(last.recordId, last.organization) # {}
    /\ getRecord(last.recordId).createdBy = last.caller

(* C14: a deactivateRecord(r) by c that succeeds found r active and c the  *)
(* creator of r or a holder of the Admin role; while the system runs, an   *)
(* account that has access to r but is neither is rejected Unauthorized,   *)
(* and r is active afterwards.                                             *)
C14_DeactivateAuthority ==
    [][Called("deactivateRecord") =>
         LET c == last'.caller
             r == last'.recordId
         IN  /\ last'.result = OK =>
                   /\ getRecord(r).isActive
                   /\ getRecord(r).createdBy = c \/ hasRole(ADMIN_ROLE, c)
             /\ (/\ ~_paused
                 /\ hasAccess(r, c)
                 /\ getRecord(r).createdBy # c
                 /\ ~hasRole(ADMIN_ROLE, c))
                   => /\ ErrorKind(last'.result) = "Unauthorized"
                      /\ _records'[r].isActive
                      /\ UNCHANGED storage]_vars

\* An organization holding a grant tried to deactivate the record.
C14_Witness ==
    /\ last.op = "deactivateRecord"
    /\ last.result = E_Deactivate
    /\ hasAccess(last.recordId, last.caller)
    /\ getRecord(last.recordId).isActive

\* Both strings pass validString.
ValidStrings(strings) == validString(strings[1]) = OK /\ validString(strings[2]) = OK

(* C15: while the system runs, updateRecord by an organization on a record *)
(* that is missing or inactive is rejected NotFound, whatever the strings; *)
(* updateRecord with valid strings on an active record by a caller without *)
(* access is rejected Unauthorized; updateRecord with valid strings by an  *)
(* account that has access, creator or grantee, succeeds; and no           *)
(* updateRecord by a caller without access succeeds, in particular none by *)
(* an organization whose grant was revoked.                                *)
C15_UpdateAuthority ==
    [][Called("updateRecord") =>
         LET c == last'.caller
             r == last'.recordId
             ss == last'.strings
         IN  /\ (~_paused /\ hasRole(ORGANIZATION_ROLE, c) /\ ~getRecord(r).isActive)
                   => ErrorKind(last'.result) = "NotFound"
             /\ (~_paused /\ getRecord(r).isActive /\ ~hasAccess(r, c)
                    /\ ValidStrings(ss))
                   => ErrorKind(last'.result) = "Unauthorized"
             /\ (~_paused /\ hasAccess(r, c) /\ ValidStrings(ss))
                   => last'.result = OK
             /\ ~hasAccess(r, c) => last'.result # OK]_vars

\* An organization whose grant was revoked tried to update the record.
C15_Witness ==
    /\ last.op = "updateRecord"
    /\ last.result = E_NoAccess
    /\ RevokedEntries(last.recordId, last.caller) # {}
    /\ ActiveEntries(last.recordId, last.caller) = {}
    /\ getRecord(last.recordId).isActive

(* C16: a successful updateRecord(r, hash, location) sets the data hash    *)
(* and the data location of r to its arguments and lastUpdated to the      *)
(* block time, not before the old value, and leaves recordId,              *)
(* patientAddress, createdBy, timestamp and isActive of r, the grant list  *)
(* of r and of every record, every other record and every index as they    *)
(* were.                                                                   *)
C16_UpdateEffect ==
    [][(Called("updateRecord") /\ last'.result = OK) =>
         LET r == last'.recordId
             ss == last'.strings
         IN  /\ _records'[r].encryptedDataHash = ss[1]
             /\ _records'[r].dataLocation = ss[2]
             /\ _records'[r].lastUpdated = block.timestamp
             /\ _records'[r].lastUpdated >= _records[r].lastUpdated
             /\ _records'[r].recordId = _records[r].recordId
             /\ _records'[r].patientAddress = _records[r].patientAddress
             /\ _records'[r].createdBy = _records[r].createdBy
             /\ _records'[r].timestamp = _records[r].timestamp
             /\ _records'[r].isActive = _records[r].isActive
             /\ DOMAIN _records' = DOMAIN _records
             /\ \A r2 \in DOMAIN _records \ {r} : _records'[r2] = _records[r2]
             /\ UNCHANGED <<_recordAccess, _hasAccessCache, _patientRecords,
                            _organizationRecords, _allRecordIds,
                            _registeredOrganizations, _roles, _paused>>]_vars

\* A grantee updated, in a later block, a record that another organization created.
C16_Witness ==
    /\ Succeeded("updateRecord")
    /\ getRecord(last.recordId).createdBy # last.caller
    /\ getRecord(last.recordId).lastUpdated > getRecord(last.recordId).timestamp
    /\ getRecord(last.recordId).encryptedDataHash = last.strings[1]

(* C17: createRecord by a caller without the Organization role is rejected *)
(* Unauthorized; by an organization while the system is paused it is       *)
(* rejected Paused; by an organization, while the system runs, with a data *)
(* hash or a data location that is empty or longer than 256 characters it  *)
(* is rejected InvalidArgument; and in each of the three cases records,    *)
(* grant lists, indices and event log stay as they were.                   *)
C17_CreateRejections ==
    [][Called("createRecord") =>
         LET c == last'.caller
             ss == last'.strings
         IN  /\ ~hasRole(ORGANIZATION_ROLE, c)
                   => ErrorKind(last'.result) = "Unauthorized"
             /\ (hasRole(ORGANIZATION_ROLE, c) /\ _paused)
                   => ErrorKind(last'.result) = "Paused"
             /\ (hasRole(ORGANIZATION_ROLE, c) /\ ~_paused /\ ~ValidStrings(ss))
                   => ErrorKind(last'.result) = "InvalidArgument"
             /\ (~hasRole(ORGANIZATION_ROLE, c) \/ _paused \/ ~ValidStrings(ss))
                   => /\ last'.result # OK
                      /\ UNCHANGED storage]_vars

\* An organization that has created a record sent a data location of 257
\* characters for a patient that is not the zero address.
C17_Witness ==
    /\ last.op = "createRecord"
    /\ last.result = E_TooLong
    /\ last.patientAddress # ZeroAddress
    /\ StrLen(last.strings[2]) = MAX_STRING_LENGTH + 1
    /\ Len(_allRecordIds) > 0

(* C18, as stated: createRecord with the zero address as patient is        *)
(* rejected InvalidArgument, for every caller and every pair of strings.   *)
C18_ZeroPatientInvalidArgument ==
    (last.op = "createRecord" /\ last.patientAddress = ZeroAddress)
        => ErrorKind(last.result) = "InvalidArgument"

(* C18, amended: createRecord with the zero address as patient is rejected *)
(* and creates nothing, for every caller and every pair of strings; the    *)
(* error is InvalidArgument when the caller holds the Organization role    *)
(* and the system runs, Unauthorized when the caller does not hold the     *)
(* role, and Paused when it does and the system is paused.                 *)
C18_ZeroPatientRejected ==
    [][(Called("createRecord") /\ last'.patientAddress = ZeroAddress) =>
          /\ last'.result # OK
          /\ UNCHANGED storage
          /\ ErrorKind(last'.result) =
                IF ~hasRole(ORGANIZATION_ROLE, last'.caller) THEN "Unauthorized"
                ELSE IF _paused THEN "Paused"
                ELSE "InvalidArgument"]_vars

\* The zero patient is what is reported, although the data hash is empty too.
C18_Witness ==
    /\ last.op = "createRecord"
    /\ last.patientAddress = ZeroAddress
    /\ last.result = E_Address
    /\ ~ValidStrings(last.strings)
    /\ hasRole(ORGANIZATION_ROLE, last.caller)

\* The sum of getPatientRecordCount over a set of patients.
RECURSIVE PatientCountSum(_)
PatientCountSum(S) ==
    IF S = {} THEN 0
    ELSE LET p == CHOOSE q \in S : TRUE
         IN  getPatientRecordCount(p) + PatientCountSum(S \ {p})

\* What getPatientRecordCount and getPatientRecords return, for every patient.
PatientCounts == [a \in Address |-> getPatientRecordCount(a)]

PatientLists == [a \in Address |-> getPatientRecords(a)]

(* C19: a successful createRecord for patient p raises                     *)
(* getPatientRecordCount(p) and getTotalRecordCount() by exactly one and   *)
(* appends the new id to the list of p, leaving the lists of the other     *)
(* patients alone; no other step changes a patient's list or the list of   *)
(* all ids; and in every state the total count is the sum of the counts of *)
(* the patients and the number of RecordCreated events.                    *)
C19_Counts ==
    /\ [](/\ getTotalRecordCount = PatientCountSum(Address)
          /\ getTotalRecordCount = Cardinality(EventsNamed("RecordCreated")))
    /\ [][IF Called("createRecord") /\ last'.result = OK
          THEN LET p == last'.patientAddress IN
               /\ PatientCounts'[p] = PatientCounts[p] + 1
               /\ getTotalRecordCount' = getTotalRecordCount + 1
               /\ PatientLists'[p] = Append(PatientLists[p], last'.recordId)
               /\ \A q \in Address \ {p} : PatientLists'[q] = PatientLists[q]
          ELSE UNCHANGED <<_patientRecords, _allRecordIds>>]_vars

\* Three records of two patients, and a pause after the last creation.
C19_Witness ==
    /\ getTotalRecordCount = 3
    /\ getPatientRecordCount(3) = 2
    /\ getPatientRecordCount(Deployer) = 1
    /\ Succeeded("pause")

\* The index of the most recent entry of organization o in the grant list of
\* r, 0 if there is none.
LatestEntry(r, o) ==
    LET grants == Get(_recordAccess, r, << >>)
        S == {i \in 1..Len(grants) : grants[i].organization = o}
    IN  IF S = {} THEN 0 ELSE CHOOSE i \in S : \A j \in S : j <= i

\* The reference: false if r is missing or inactive, otherwise true iff the
\* most recent grant entry of (r, o) exists and is not revoked.
hasAccessReference(r, o) ==
    /\ r \in DOMAIN _records
    /\ _records[r].isActive
    /\ LatestEntry(r, o) # 0
    /\ ~_recordAccess[r][LatestEntry(r, o)].isRevoked

(* C20: in every reachable state hasAccess(r, o), computed from the active *)
(* flag, the access cache and the scan for an entry that is not revoked,   *)
(* equals the reference, for every record id, the id of no record          *)
(* included, and every account.                                            *)
C20_HasAccessIsReference ==
    \A r \in KnownRecordIds \cup {ZeroId} : \A o \in Address :
        hasAccess(r, o) = hasAccessReference(r, o)

\* An organization was granted and revoked twice: two entries, both revoked.
C20_Witness ==
    \E r \in KnownRecordIds : \E o \in Address :
        /\ Cardinality(RevokedEntries(r, o)) = 2
        /\ ActiveEntries(r, o) = {}
        /\ ~hasAccess(r, o)
        /\ \E p \in Address \ {o} : hasAccess(r, p)

\* The records that are stored and active.
ActiveRecords == {r \in DOMAIN _records : _records[r].isActive}

(* C21: the reads other than getRecord ignore inactive records: a record   *)
(* that was deactivated has an empty getRecordAccess, is in no             *)
(* getPatientRecords and no getOrganizationRecords, and is counted neither *)
(* by getPatientRecordCount nor by getTotalRecordCount, while getRecord    *)
(* returns it with isActive false.                                         *)
C21_ReadsIgnoreInactive ==
    /\ \A r \in DOMAIN _records \ ActiveRecords :
          /\ getRecord(r).recordId = r
          /\ ~getRecord(r).isActive
          /\ getRecordAccess(r) = << >>
          /\ \A a \in Address :
                /\ r \notin Range(getPatientRecords(a))
                /\ r \notin Range(getOrganizationRecords(a))
    /\ \A a \in Address :
          getPatientRecordCount(a) =
             Cardinality({r \in ActiveRecords : _records[r].patientAddress = a})
    /\ getTotalRecordCount = Cardinality(ActiveRecords)

(* C22: getOrganizationRecords(o) holds exactly the ids of the records o   *)
(* has access to, each once.                                               *)
C22_IndexIsAccessSet ==
    \A o \in Address :
        /\ Range(getOrganizationRecords(o)) = {r \in KnownRecordIds : hasAccess(r, o)}
        /\ NoDuplicates(getOrganizationRecords(o))

\* The entries of a batch that it registers: not the zero address, without
\* the Organization role before the call, and not named earlier in the batch;
\* in the order of the batch.
NewEntries(organizations) ==
    LET new(i) == /\ organizations[i] # ZeroAddress
                  /\ ~hasRole(ORGANIZATION_ROLE, organizations[i])
                  /\ \A j \in 1..(i - 1) : organizations[j] # organizations[i]
        idx == SelectSeq([i \in 1..Len(organizations) |-> i], new)
    IN  [k \in 1..Len(idx) |-> organizations[idx[k]]]

\* The event a successful call of a function that changes one record or one
\* organization must append: its kind, whom it affects, and who called.
AuditKind ==
    [createRecord |-> "RecordCreated", grantAccess |-> "AccessGranted",
     revokeAccess |-> "AccessRevoked", updateRecord |-> "RecordUpdated",
     deactivateRecord |-> "RecordDeactivated",
     registerOrganization |-> "OrganizationRegistered"]

Audits(e, call) ==
    /\ e.name = AuditKind[call.op]
    /\ CASE call.op = "createRecord" ->
              /\ e.recordId = call.recordId
              /\ e.patientAddress = call.patientAddress
              /\ e.createdBy = call.caller
         [] call.op = "grantAccess" ->
              /\ e.recordId = call.recordId
              /\ e.organization = call.organization
              /\ e.grantedBy = call.caller
         [] call.op = "revokeAccess" ->
              /\ e.recordId = call.recordId
              /\ e.organization = call.organization
              /\ e.revokedBy = call.caller
         [] call.op = "updateRecord" ->
              /\ e.recordId = call.recordId
              /\ e.updatedBy = call.caller
         [] call.op = "deactivateRecord" ->
              /\ e.recordId = call.recordId
              /\ e.deactivatedBy = call.caller
         [] call.op = "registerOrganization" ->
              /\ e.organization = call.organization
              /\ e.registeredBy = call.caller

(* C23: a successful createRecord, grantAccess, revokeAccess,              *)
(* updateRecord, deactivateRecord or registerOrganization appends exactly  *)
(* one event, of its kind, with the record or organization it changed and  *)
(* its caller; a successful batchRegisterOrganizations appends exactly one *)
(* OrganizationRegistered event, with the organization and the caller, for *)
(* each organization it registers, in the order of the batch; and a        *)
(* rejected call appends none.                                             *)
C23_OneEventPerMutation ==
    [][/\ last'.result # OK => events' = events
       /\ \A op \in DOMAIN AuditKind :
             (Called(op) /\ last'.result = OK) =>
                /\ Len(events') = Len(events) + 1
                /\ SubSeq(events', 1, Len(events)) = events
                /\ Audits(events'[Len(events')], last')
       /\ (Called("batchRegisterOrganizations") /\ last'.result = OK) =>
             LET new == NewEntries(last'.batch) IN
             events' = events \o [k \in 1..Len(new) |->
                                     OrganizationRegistered(new[k], last'.caller)]]_vars

\* The deployer was registered by a batch that names it twice, after a
\* grant on a record.
C23_Witness ==
    /\ Succeeded("batchRegisterOrganizations")
    /\ last.batch = <<Deployer, ZeroAddress, Deployer>>
    /\ events[Len(events)] = OrganizationRegistered(Deployer, Deployer)
    /\ Cardinality({i \in EventsNamed("OrganizationRegistered") :
                       events[i].organization = Deployer}) = 1
    /\ EventsNamed("AccessGranted") # {}

\* The positions in the log of the events that tell of the access of
\* organization o to record r: the creation of r by o, grants to o, and
\* revocations from o.
AccessEvents(r, o) ==
    {i \in 1..Len(events) :
        \/ /\ events[i].name = "RecordCreated"
           /\ events[i].recordId = r
           /\ events[i].createdBy = o
        \/ /\ events[i].name \in {"AccessGranted", "AccessRevoked"}
           /\ events[i].recordId = r
           /\ events[i].organization = o}

\* The log says o has access to r: the latest of these events is no revocation.
LogSaysGranted(r, o) ==
    /\ AccessEvents(r, o) # {}
    /\ LET i == CHOOSE k \in AccessEvents(r, o) : \A j \in AccessEvents(r, o) : j <= k
       IN  events[i].name \in {"RecordCreated", "AccessGranted"}

LogSaysActive(r) ==
    /\ \E i \in EventsNamed("RecordCreated") : events[i].recordId = r
    /\ ~\E i \in EventsNamed("RecordDeactivated") : events[i].recordId = r

(* C24: in every reachable state, for every record id and account, the     *)
(* grant list of r holds an entry of o that is not revoked iff the latest  *)
(* event among RecordCreated(r, createdBy o), AccessGranted(r, o) and      *)
(* AccessRevoked(r, o) is a creation or a grant; and r is active iff the   *)
(* log holds RecordCreated(r) and no RecordDeactivated(r).                 *)
C24_LogIsHistory ==
    \A r \in KnownRecordIds \cup {ZeroId} :
        /\ \A o \in Address : (ActiveEntries(r, o) # {}) = LogSaysGranted(r, o)
        /\ getRecord(r).isActive = LogSaysActive(r)

\* A record was deactivated after an organization was granted, revoked and
\* granted again: it holds a grant that is not revoked on an inactive record.
C24_Witness ==
    \E r \in KnownRecordIds : \E o \in Address :
        /\ ~getRecord(r).isActive
        /\ RevokedEntries(r, o) # {}
        /\ ActiveEntries(r, o) # {}
        /\ getRecord(r).createdBy # o

(* C25: registerOrganization of an account that holds the Organization     *)
(* role never succeeds, appends nothing to the list of registered          *)
(* organizations and emits no event, and when called by an admin on the    *)
(* running system it is rejected AlreadyExists; registerOrganization of    *)
(* the zero address by an admin is rejected InvalidArgument, paused or     *)
(* not, and changes nothing.                                               *)
C25_RegisterRejections ==
    [][Called("registerOrganization") =>
         LET c == last'.caller
             o == last'.organization
         IN  /\ hasRole(ORGANIZATION_ROLE, o) =>
                   /\ last'.result # OK
                   /\ _registeredOrganizations' = _registeredOrganizations
                   /\ events' = events
                   /\ UNCHANGED storage
             /\ (hasRole(ORGANIZATION_ROLE, o) /\ hasRole(ADMIN_ROLE, c) /\ ~_paused)
                   => ErrorKind(last'.result) = "AlreadyExists"
             /\ (o = ZeroAddress /\ hasRole(ADMIN_ROLE, c))
                   => /\ ErrorKind(last'.result) = "InvalidArgument"
                      /\ UNCHANGED storage]_vars

\* The deployer registered again an organization that has created a record.
C25_Witness ==
    /\ last.op = "registerOrganization"
    /\ last.result = E_Registered
    /\ hasRole(ORGANIZATION_ROLE, last.organization)
    /\ \E r \in DOMAIN _records : _records[r].createdBy = last.organization
    /\ Cardinality({i \in 1..Len(_registeredOrganizations) :
                       _registeredOrganizations[i] = last.organization}) = 1

\* registerOrganization called by caller for each entry in turn, on storage s.
RECURSIVE RegisterEach(_, _, _, _)
RegisterEach(s, organizations, caller, i) ==
    IF i > Len(organizations) THEN s
    ELSE RegisterEach(Register(s, organizations[i], caller), organizations, caller, i + 1)

(* C26: batchRegisterOrganizations by an admin on the running system with  *)
(* 1 to 50 entries succeeds whatever the entries are; with no entry or     *)
(* with more than 50 it is rejected and changes nothing; and a batch that  *)
(* succeeds gives the Organization role to exactly its entries that are    *)
(* not the zero address, held no role before and are not repeats, appends  *)
(* each once, in order, to the list of registered organizations, emits one *)
(* OrganizationRegistered for each, changes nothing else, and leaves the   *)
(* storage that registerOrganization called for each of them in turn       *)
(* leaves.                                                                 *)
C26_BatchIsTotal ==
    [][Called("batchRegisterOrganizations") =>
         LET c == last'.caller
             os == last'.batch
             new == NewEntries(os)
         IN  /\ (hasRole(ADMIN_ROLE, c) /\ ~_paused /\ Len(os) \in 1..MAX_BATCH)
                   => last'.result = OK
             /\ (Len(os) = 0 \/ Len(os) > MAX_BATCH)
                   => /\ last'.result # OK
                      /\ UNCHANGED storage
                      /\ (hasRole(ADMIN_ROLE, c) /\ ~_paused)
                            => ErrorKind(last'.result) = "InvalidArgument"
             /\ last'.result = OK =>
                   /\ _roles'[ORGANIZATION_ROLE] = _roles[ORGANIZATION_ROLE] \cup Range(new)
                   /\ \A role \in DOMAIN _roles \ {ORGANIZATION_ROLE} :
                         _roles'[role] = _roles[role]
                   /\ _registeredOrganizations' = _registeredOrganizations \o new
                   /\ NoDuplicates(new)
                   /\ events' = events \o [k \in 1..Len(new) |->
                                              OrganizationRegistered(new[k], c)]
                   /\ UNCHANGED <<_paused, _records, _recordAccess, _patientRecords,
                                  _organizationRecords, _hasAccessCache, _allRecordIds>>
                   /\ State' = RegisterEach(State, new, c, 1)]_vars

\* A batch of the zero address and twice organization 3, after organization 2
\* was registered: 3 is registered once.
C26_Witness ==
    /\ Succeeded("batchRegisterOrganizations")
    /\ last.batch = <<ZeroAddress, 3, 3>>
    /\ _registeredOrganizations = <<2, 3>>
    /\ _roles[ORGANIZATION_ROLE] = {2, 3}

\* seq continues pre.
IsPrefix(pre, seq) == Len(pre) <= Len(seq) /\ SubSeq(seq, 1, Len(pre)) = pre

(* C27: an account that holds the Organization role holds it after every   *)
(* step, the list of registered organizations only grows, and in every     *)
(* state the list holds exactly the holders of the Organization role, none *)
(* twice.                                                                  *)
C27_RoleIsPermanent ==
    /\ [](/\ Range(getAllOrganizations) = _roles[ORGANIZATION_ROLE]
          /\ NoDuplicates(getAllOrganizations)
          /\ getOrganizationCount = Cardinality(_roles[ORGANIZATION_ROLE]))
    /\ [][/\ _roles[ORGANIZATION_ROLE] \subseteq _roles'[ORGANIZATION_ROLE]
          /\ IsPrefix(_registeredOrganizations, _registeredOrganizations')]_vars

-----------------------------------------------------------------------------
\* The grant list of every record, as stored.
GrantLists == [r \in RecordIdInputs |-> Get(_recordAccess, r, << >>)]

(* C28: over every step and for every record, the grant list does not get  *)
(* shorter, every entry keeps its organization and its grantedAt, an entry *)
(* that is revoked stays revoked with the same revokedAt, and a successful *)
(* grantAccess, a re-grant after a revocation included, leaves every entry *)
(* as it was and appends one new entry, not revoked, granted now.          *)
C28_LedgerAppendOnly ==
    [][\A r \in RecordIdInputs :
          LET old == GrantLists[r]
              new == GrantLists'[r]
          IN  /\ Len(old) <= Len(new)
              /\ \A i \in 1..Len(old) :
                    /\ new[i].organization = old[i].organization
                    /\ new[i].grantedAt = old[i].grantedAt
                    /\ old[i].isRevoked =>
                          new[i].isRevoked /\ new[i].revokedAt = old[i].revokedAt
              /\ (Called("grantAccess") /\ last'.result = OK /\ last'.recordId = r) =>
                    new = Append(old, [organization |-> last'.organization,
                                       grantedAt |-> block.timestamp,
                                       revokedAt |-> 0, isRevoked |-> FALSE])]_vars

\* Organization 3 was granted access to the record, revoked in the next
\* block and granted again: its revoked entry is followed by its current one.
C28_Witness ==
    LET grants == GrantLists[LedgerRecordId]
    IN  /\ last.op = "grantAccess" /\ last.result = OK /\ last.organization = 3
        /\ \E i, j \in 1..Len(grants) :
              /\ i < j
              /\ grants[i].organization = 3 /\ grants[i].isRevoked
              /\ grants[i].revokedAt = 2
              /\ grants[j].organization = 3 /\ ~grants[j].isRevoked

-----------------------------------------------------------------------------
\* The positions in the log of the events by which an organization got the
\* access to r that it holds now: a creation of r or a grant on r that no
\* later event about the same organization and r follows.
CurrentGrantEvents(r) ==
    {i \in 1..Len(events) :
        /\ events[i].name \in {"RecordCreated", "AccessGranted"}
        /\ events[i].recordId = r
        /\ LET o == IF events[i].name = "RecordCreated" THEN events[i].createdBy
                    ELSE events[i].organization
           IN  i \in AccessEvents(r, o) /\ \A j \in AccessEvents(r, o) : j <= i}

\* The organizations of these events in the order of the log.
GrantOrder(r) ==
    LET at == SelectSeq([i \in 1..Len(events) |-> i],
                        LAMBDA i : i \in CurrentGrantEvents(r))
    IN  [k \in 1..Len(at) |->
            IF events[at[k]].name = "RecordCreated" THEN events[at[k]].createdBy
            ELSE events[at[k]].organization]

(* C29: in every reachable state and for every record id, getRecordAccess  *)
(* returns each organization that holds a grant that is not revoked once,  *)
(* in the order in which these grants were made (the creation of the       *)
(* record is the grant of its creator, so the creator is first while that  *)
(* grant stands, and an organization granted again after a revocation is   *)
(* at the place of the new grant); on an active record these are the       *)
(* organizations for which hasAccess is true.                              *)
C29_AccessListOrder ==
    \A r \in KnownRecordIds \cup {ZeroId} :
        /\ getRecordAccess(r) = GrantOrder(r)
        /\ NoDuplicates(getRecordAccess(r))
        /\ getRecord(r).isActive =>
              Range(getRecordAccess(r)) = {o \in Address : hasAccess(r, o)}

\* The creator's grant was revoked by an organization it had granted, which
\* then granted the creator again: the creator is listed after it.
C29_Witness ==
    /\ getRecord(LedgerRecordId).createdBy = 2
    /\ getRecordAccess(LedgerRecordId) = <<3, 2>>
    /\ Len(Get(_recordAccess, LedgerRecordId, << >>)) = 3

-----------------------------------------------------------------------------
\* What the page requires of a text, in the words of its messages: an
\* address is 0x and 40 hex digits, in lower case or in its EIP-55 spelling;
\* a record id is 0x and 64 hex digits; a hash or a location is not blank.
IsHexText(s, n) ==
    /\ Len(s) = n + 2
    /\ SubSeq(s, 1, 2) = <<"0", "x">>
    /\ \A i \in 3..Len(s) : s[i] \in HexDigits

IsValidAddressText(s) ==
    /\ IsHexText(s, 40)
    /\ (\E i \in 3..Len(s) : s[i] \in {"A", "B", "C", "D", "E", "F"}) => s = ChecksumVector

IsRecordIdText(s) == IsHexText(s, 64)

IsBlank(s) == \A i \in 1..Len(s) : s[i] \in Whitespace

FormTypes == {"create", "grant", "revoke"}

HandlerOf(formType) ==
    CASE formType = "create" -> "handleCreateRecord"
      [] formType = "grant" -> "handleGrantAccess"
      [] formType = "revoke" -> "handleRevokeAccess"

\* The fields of a form whose text is not what the page requires.
InvalidFields(formType) ==
    CASE formType = "create" ->
            {f \in {"patientAddress"} : ~IsValidAddressText(form[f])}
            \cup {f \in {"dataHash", "dataLocation"} : IsBlank(form[f])}
      [] formType = "grant" ->
            {f \in {"grantRecordId"} : ~IsRecordIdText(form[f])}
            \cup {f \in {"grantOrgAddress"} : ~IsValidAddressText(form[f])}
      [] formType = "revoke" ->
            {f \in {"revokeRecordId"} : ~IsRecordIdText(form[f])}
            \cup {f \in {"revokeOrgAddress"} : ~IsValidAddressText(form[f])}

\* The write a form submits.
WriteOf(formType) ==
    CASE formType = "create" ->
            [address |-> form.contractAddress, functionName |-> "createRecord",
             args |-> <<form.patientAddress, form.dataHash, form.dataLocation>>]
      [] formType = "grant" ->
            [address |-> form.contractAddress, functionName |-> "grantAccess",
             args |-> <<form.grantRecordId, form.grantOrgAddress>>]
      [] formType = "revoke" ->
            [address |-> form.contractAddress, functionName |-> "revokeAccess",
             args |-> <<form.revokeRecordId, form.revokeOrgAddress>>]

\* The step is a run of the handler of the form.
Handled(formType) == form' # form /\ form'.handler = HandlerOf(formType)

(* C30: over every step of the page, a write is issued only by the handler *)
(* of a form, only when every field of that form is valid (the address a   *)
(* valid address, the record id 0x and 64 hex digits, hash and location    *)
(* not blank) and a contract address is configured, and it is the write of *)
(* that form's function with the fields as typed to the configured         *)
(* address, itself a valid address; and when a field of the form is        *)
(* invalid the handler issues no write and leaves an error message for     *)
(* exactly the invalid fields of the form.                                 *)
C30_WritesAreValidated ==
    [][/\ form'.writes # form.writes => \E t \in FormTypes : Handled(t)
       /\ \A t \in FormTypes : Handled(t) =>
             /\ form'.writes # form.writes =>
                   /\ InvalidFields(t) = {}
                   /\ form.contractAddress # Null
                   /\ IsValidAddressText(form.contractAddress)
                   /\ form'.writes = Append(form.writes, WriteOf(t))
             /\ InvalidFields(t) # {} =>
                   /\ form'.writes = form.writes
                   /\ {k \in DOMAIN form'.errors : form'.errors[k] # ""}
                         = InvalidFields(t)]_vars

\* With a contract address configured, the create form was filled with
\* valid texts and its write issued; then the empty revoke form was
\* submitted: no further write, and an error for both of its fields.
C30_Witness ==
    /\ form.contractAddress # Null
    /\ Len(form.writes) = 1
    /\ form.writes[1].functionName = "createRecord"
    /\ form.handler = "handleRevokeAccess"
    /\ DOMAIN form.errors = {"revokeRecordId", "revokeOrgAddress"}
    /\ \A k \in DOMAIN form.errors : form.errors[k] # ""

-----------------------------------------------------------------------------
\* The screen by the rule of the page: the first of not connected, contract
\* not configured and wrong network that applies blocks the page, and the
\* forms are shown when none does.
Blockers ==
    <<<<"connect", ~form.isConnected>>,
      <<"notConfigured", ~IsValidAddressText(form.contractAddress)>>,
      <<"wrongNetwork", form.chainId \notin {8453, 84532}>>>>

ExpectedScreen ==
    IF \E i \in 1..Len(Blockers) : Blockers[i][2]
    THEN Blockers[CHOOSE i \in 1..Len(Blockers) :
                     Blockers[i][2] /\ \A j \in 1..(i - 1) : ~Blockers[j][2]][1]
    ELSE "forms"

-----------------------------------------------------------------------------
(* C32: in every reachable state the access cache holds the pair of record *)
(* r and organization o iff the grant list of r has an entry of o that is  *)
(* not revoked, so _hasAccess(r, o) is the active flag of r together with  *)
(* the cache bit alone, and no call has ended with 'Access not found'.     *)
C32_CacheIsGrantList ==
    /\ \A p \in _hasAccessCache : ActiveEntries(p[1], p[2]) # {}
    /\ \A r \in KnownRecordIds \cup {ZeroId} : \A o \in Address :
          /\ (ActiveEntries(r, o) # {}) => <<r, o>> \in _hasAccessCache
          /\ _hasAccess(r, o) = (getRecord(r).isActive /\ <<r, o>> \in _hasAccessCache)
    /\ last.result # E_NotFound

\* An organization whose only grant is revoked was named in a second
\* revocation: the call was rejected because it has no access.
C32_Witness ==
    /\ last.op = "revokeAccess"
    /\ last.result = E_NotGranted
    /\ RevokedEntries(last.recordId, last.organization) # {}
    /\ ActiveEntries(last.recordId, last.organization) = {}
    /\ <<last.recordId, last.organization>> \notin _hasAccessCache

-----------------------------------------------------------------------------
\* The organizations with access to record r.
Holders(r) == {o \in Address : hasAccess(r, o)}

(* C33: in every reachable state, whatever the order in which the          *)
(* organizations' grantAccess and revokeAccess calls were executed one     *)
(* after the other, every active record has at least one organization with *)
(* access.                                                                 *)
C33_ActiveRecordHasHolder ==
    \A r \in DOMAIN _records : _records[r].isActive => Holders(r) # {}

\* The creator granted access to a second organization, which then revoked
\* the creator's: the second organization alone has access, its attempt to
\* revoke its own would be rejected, and so would the creator's attempt to
\* revoke the second organization's in return.
C33_Witness ==
    /\ Succeeded("revokeAccess")
    /\ last.caller # getRecord(last.recordId).createdBy
    /\ last.organization = getRecord(last.recordId).createdBy
    /\ getRecord(last.recordId).isActive
    /\ Holders(last.recordId) = {last.caller}
    /\ revokeAccessResult(last.caller, last.recordId, last.caller) = E_OwnAccess
    /\ revokeAccessResult(last.organization, last.recordId, last.caller) = E_NoAccess

-----------------------------------------------------------------------------
\* The positions in the log of the events that mention record r.
Mentions(r) ==
    {i \in 1..Len(events) : "recordId" \in DOMAIN events[i] /\ events[i].recordId = r}

(* C34: in every reachable state and for every record r, the first event   *)
(* that mentions r is its RecordCreated, r has one RecordCreated and at    *)
(* most one RecordDeactivated, and RecordDeactivated(r) is the last event  *)
(* that mentions r; no updateRecord, grantAccess, revokeAccess or          *)
(* deactivateRecord on an inactive record succeeds, whoever calls, the     *)
(* admin and the creator included; and over every step the log only grows  *)
(* at its end.                                                             *)
C34_RecordLifecycleOrder ==
    /\ [](/\ \A r \in KnownRecordIds :
                /\ Mentions(r) # {}
                /\ \A i \in Mentions(r) :
                      /\ (events[i].name = "RecordCreated") = (\A j \in Mentions(r) : i <= j)
                      /\ (events[i].name = "RecordDeactivated") =>
                            \A j \in Mentions(r) : j <= i
          /\ \A i \in 1..Len(events) :
                "recordId" \in DOMAIN events[i] => events[i].recordId \in KnownRecordIds
          /\ \A r \in KnownRecordIds : ~getRecord(r).isActive =>
                \A c \in Callers :
                   /\ deactivateRecordResult(c, r) # OK
                   /\ \A ss \in UpdateStrings : updateRecordResult(c, r, ss) # OK
                   /\ \A o \in Address :
                         /\ grantAccessResult(c, r, o) # OK
                         /\ revokeAccessResult(c, r, o) # OK)
    /\ [][IsPrefix(events, events')]_vars

\* A record was granted on and then deactivated, and a later call on it by
\* its creator was rejected.
C34_Witness ==
    /\ last.result = E_NoRecord
    /\ last.caller = getRecord(last.recordId).createdBy
    /\ \E i, j \in Mentions(last.recordId) :
          /\ i < j
          /\ events[i].name = "AccessGranted"
          /\ events[j].name = "RecordDeactivated"
          /\ j = Len(events)

-----------------------------------------------------------------------------
(* C35: in every reachable state in which the system runs, updateRecord    *)
(* succeeds whenever the record is active, the caller has access and the   *)
(* strings are valid; grantAccess succeeds whenever the record is active,  *)
(* the target holds the Organization role, the caller has access and the   *)
(* target has none; revokeAccess succeeds whenever the record is active,   *)
(* the caller has access, the target is another account and has access.    *)
(* The code's further checks, that the caller holds the Organization role  *)
(* and that the target is not the zero address, reject none of these.      *)
C35_PreconditionsSuffice ==
    ~_paused =>
        \A r \in KnownRecordIds : \A c \in Callers :
            (getRecord(r).isActive /\ hasAccess(r, c)) =>
                /\ \A ss \in CreateStrings \cup UpdateStrings :
                      ValidStrings(ss) => updateRecordResult(c, r, ss) = OK
                /\ \A o \in Address :
                      /\ (hasRole(ORGANIZATION_ROLE, o) /\ ~hasAccess(r, o)) =>
                            grantAccessResult(c, r, o) = OK
                      /\ (o # c /\ hasAccess(r, o)) =>
                            revokeAccessResult(c, r, o) = OK

-----------------------------------------------------------------------------
(* C36: in every reachable state in which the system runs, the creator of  *)
(* an active record and every admin can deactivate it, with or without a   *)
(* grant that is not revoked; and neither of them, when it has no access,  *)
(* can update the record, grant access to it or revoke access to it.       *)
C36_DeactivateIgnoresLedger ==
    ~_paused =>
        \A r \in KnownRecordIds : getRecord(r).isActive =>
            \A c \in Callers :
                (getRecord(r).createdBy = c \/ hasRole(ADMIN_ROLE, c)) =>
                    /\ deactivateRecordResult(c, r) = OK
                    /\ ~hasAccess(r, c) =>
                          /\ \A ss \in UpdateStrings : updateRecordResult(c, r, ss) # OK
                          /\ \A o \in Address :
                                /\ grantAccessResult(c, r, o) # OK
                                /\ revokeAccessResult(c, r, o) # OK

\* The creator deactivated its record after the organization it had granted
\* revoked the creator's access.
C36_Witness ==
    /\ Succeeded("deactivateRecord")
    /\ last.caller = getRecord(last.recordId).createdBy
    /\ ~hasRole(ADMIN_ROLE, last.caller)
    /\ ActiveEntries(last.recordId, last.caller) = {}
    /\ RevokedEntries(last.recordId, last.caller) # {}

-----------------------------------------------------------------------------
(* C37: in every state reached by calls of registerOrganization,           *)
(* createRecord, grantAccess and revokeAccess that the later contract has  *)
(* all accepted, the earlier contract has accepted the latest call too,    *)
(* has created as many records, and for every record, named in each        *)
(* contract by the id that contract returned for it, and every account,    *)
(* hasAccess is the same in both and getRecordAccess returns the same      *)
(* list in both.                                                           *)
C37_VariantsAgree ==
    last.result = OK =>
        /\ legacy.result = OK
        /\ Len(legacy.allRecordIds) = Len(_allRecordIds)
        /\ \A k \in BothRecords :
              /\ \A o \in Address :
                    hasAccess(_allRecordIds[k], o)
                        = legacyHasAccess(legacy.allRecordIds[k], o)
              /\ getRecordAccess(_allRecordIds[k])
                    = legacyGetRecordAccess(legacy.allRecordIds[k])

-----------------------------------------------------------------------------
(* C38: in the earlier contract no two successful createRecord calls       *)
(* return the same recordId, and so no creation writes over a record that  *)
(* an earlier one stored: every successful creation pushes the id it       *)
(* returns on allRecordIds and stores its record under that id, and the    *)
(* ids on allRecordIds are pairwise different, whatever the organization,  *)
(* the patient and the block of the calls.                                 *)
C38_LegacyIdsAreUnique == NoDuplicates(legacy.allRecordIds)

-----------------------------------------------------------------------------
\* The fields of a record that the data constraints are about.
ConstrainedFields(record) ==
    <<record.patientAddress, record.createdBy, record.encryptedDataHash,
      record.dataLocation, record.timestamp, record.lastUpdated>>

(* C39: in every reachable state every stored record has a patient other   *)
(* than the zero address, a creator that holds the Organization role, a    *)
(* data hash and a data location that are not empty and at most            *)
(* MAX_STRING_LENGTH long, and a creation time not after its last update;  *)
(* and a step that stores a record or changes one of these fields of a     *)
(* stored record is a successful createRecord or updateRecord.             *)
C39_RecordsKeepConstraints ==
    /\ [](\A r \in DOMAIN _records :
            /\ _records[r].patientAddress # ZeroAddress
            /\ hasRole(ORGANIZATION_ROLE, _records[r].createdBy)
            /\ StrLen(_records[r].encryptedDataHash) \in 1..MAX_STRING_LENGTH
            /\ StrLen(_records[r].dataLocation) \in 1..MAX_STRING_LENGTH
            /\ _records[r].timestamp <= _records[r].lastUpdated)
    /\ [][\A r \in DOMAIN _records' :
            (\/ r \notin DOMAIN _records
             \/ ConstrainedFields(_records'[r]) # ConstrainedFields(_records[r]))
                => /\ last'.op \in {"createRecord", "updateRecord"}
                   /\ last'.result = OK]_vars

====
